---------------------------- MODULE Spec2Model ----------------------------
(***************************************************************************)
(* The relay core of the Minecraft MCP bridge (packages/bridge-server):    *)
(* ConnectionRegistry, AuthManager, validateMessage, LatencyMonitor,       *)
(* MessageRouter and the BridgeServer connection handler.                  *)
(*                                                                         *)
(* JavaScript values are records [t, s, n]: t is the typeof tag (with      *)
(* "null" kept apart from "object"), s the characters of a string, n the   *)
(* value of a number or boolean.                                           *)
(***************************************************************************)
EXTENDS Integers, Sequences, FiniteSets, TLC

VARIABLES
    config,              \* BridgeConfig handed to the constructor
    ws,                  \* per socket: transport state and the handler's closure
    clients,             \* ConnectionRegistry.clients, in Map insertion order
    messageQueue,        \* MessageRouter.messageQueue
    maxQueueSize,        \* MessageRouter.maxQueueSize
    serializationCache,  \* MessageRouter.serializationCache, in insertion order
    stats,               \* LatencyMonitor.stats
    last,                \* the running handler: its input, sends and route calls
    arrivals,            \* router level: the messages routed while no client
                         \* has ever registered
    ops,                 \* routeMessage calls made so far (bounds the run)
    fnIn,                \* argument of the pure function under study
    fnOut,               \* its result
    rm,                  \* a ReconnectionManager with its sockets and timers
    returned,            \* the value a getter (getStats, getMCPClients, ...)
                         \* handed to its caller
    clock,               \* the last value Date.now() returned to the router
    delivered,           \* router level: the messages submitted and the
                         \* sends that succeeded so far
    reportTimer,         \* LatencyMonitor.reportTimer and the intervals armed
    bc                   \* a BridgeClient with its sockets, timers and promises

vars == << config, ws, clients, messageQueue, maxQueueSize, serializationCache,
           stats, last, arrivals, ops, fnIn, fnOut, rm, returned, clock,
                    delivered, reportTimer, bc >>

----------------------------------------------------------------------------
\* Bounds of the model.

\* Frames the running server hands to routeMessage in one run.
MaxRelayed == 1

\* routeMessage calls made on a router from outside in one run.
MaxRoutes == 4

\* Queue capacities tried: 1 .. MaxCap.
MaxCap == 2

\* Connection attempts one ReconnectionManager makes in a run.
MaxConnections == 7

\* recordLatency calls made on one LatencyMonitor in a run.
MaxRecords == 3

\* Frames the server handles in a run in which serialisation may throw.
MaxFrames == 4

\* Length up to which a caller grows a list the registry returned.
MaxListLen == 3

\* Date.now() runs from 0 to MaxClock in the runs that follow the clock.
MaxClock == 2

\* routeMessage calls, those of processQueue included, in such a run.
MaxStamped == 2

\* sendCommand / sendQuery calls, WebSockets and received frames of a
\* BridgeClient.
MaxRequests == 2

MaxSockets == 2

MaxReceived == 2

\* setInterval calls of a LatencyMonitor.
MaxIntervals == 2

\* routeMessage calls, those of processQueue included, in a run where every
\* message is submitted once.
MaxOnce == 4

----------------------------------------------------------------------------
\* JavaScript values.

Undef == [t |-> "undefined", s |-> "", n |-> 0]

Null == [t |-> "null", s |-> "", n |-> 0]

Obj == [t |-> "object", s |-> "", n |-> 0]

Str(chars) == [t |-> "string", s |-> chars, n |-> 0]

Num(k) == [t |-> "number", s |-> "", n |-> k]

Bool(b) == [t |-> "boolean", s |-> "", n |-> IF b THEN 1 ELSE 0]

\* ToBoolean: the operand of `!`.
Truthy(v) ==
    CASE v.t = "undefined" -> FALSE
      [] v.t = "null"      -> FALSE
      [] v.t = "string"    -> v.s # ""
      [] v.t = "number"    -> v.n # 0
      [] v.t = "boolean"   -> v.n = 1
      [] OTHER             -> TRUE

\* String.prototype.startsWith.
StartsWith(str, prefix) ==
    /\ Len(str) >= Len(prefix)
    /\ SubSeq(str, 1, Len(prefix)) = prefix

VALID_MESSAGE_TYPES == { "event", "command", "query", "response", "error" }

VALID_MESSAGE_SOURCES == { "mcp", "minecraft" }

dangerousCommands == << "stop", "restart", "op", "deop" >>

VERSION == "1.0.0"

----------------------------------------------------------------------------
\* Messages.  A payload is a JavaScript value (tag t) whose properties, when
\* it is an object, are the fields below; a property that is absent reads as
\* Undef, as in JavaScript.  argsCommand is payload.args.command.

NoPayload ==
    [t |-> "undefined", authToken |-> Undef, command |-> Undef, args |-> Undef,
     argsCommand |-> Undef, success |-> Undef, eventType |-> Undef,
     timestamp |-> Undef, data |-> Undef]

EmptyPayload == [NoPayload EXCEPT !.t = "object"]

\* Property access on a payload: `payload?.field` / `payload.field` read
\* Undef unless the payload is an object.
PayloadProp(p, field) == IF p.t = "object" THEN p[field] ELSE Undef

BridgeMessage(version, type, id, timestamp, source, payload) ==
    [version |-> version, type |-> type, id |-> id, timestamp |-> timestamp,
     source |-> source, payload |-> payload]

\* What JSON.parse yields for a frame that is a primitive: every property
\* reads undefined.
PrimitiveMessage == BridgeMessage(Undef, Undef, Undef, Undef, Undef, NoPayload)

----------------------------------------------------------------------------
\* validation.ts

\* validateMessage: every violated check contributes one entry, in the order
\* of the checks.  The argument is not null (property access on null throws
\* before the first check, see HandleMessage).
validateMessage(message) ==
    LET p == message.payload
        isObj == p.t = "object"
        envelope ==
            (IF ~Truthy(message.version) \/ message.version.t # "string"
                THEN << "version" >> ELSE << >>)
            \o (IF ~Truthy(message.type) \/ message.type.t # "string"
                   \/ message.type.s \notin VALID_MESSAGE_TYPES
                THEN << "type" >> ELSE << >>)
            \o (IF ~Truthy(message.id) \/ message.id.t # "string"
                THEN << "id" >> ELSE << >>)
            \o (IF ~Truthy(message.timestamp) \/ message.timestamp.t # "number"
                THEN << "timestamp" >> ELSE << >>)
            \o (IF ~Truthy(message.source) \/ message.source.t # "string"
                   \/ message.source.s \notin VALID_MESSAGE_SOURCES
                THEN << "source" >> ELSE << >>)
            \o (IF p.t = "undefined" THEN << "payload" >> ELSE << >>)
        isType(name) == message.type.t = "string" /\ message.type.s = name
        command ==
            IF ~isType("command") THEN << >>
            ELSE IF ~isObj THEN << "command.payload" >>
            ELSE (IF ~Truthy(p.command) \/ p.command.t # "string"
                    THEN << "command.command" >> ELSE << >>)
                 \o (IF ~Truthy(p.args) \/ p.args.t # "object"
                    THEN << "command.args" >> ELSE << >>)
        response ==
            IF ~isType("response") THEN << >>
            ELSE IF ~isObj THEN << "response.payload" >>
            ELSE IF p.success.t # "boolean"
                    THEN << "response.success" >> ELSE << >>
        event ==
            IF ~isType("event") THEN << >>
            ELSE IF ~isObj THEN << "event.payload" >>
            ELSE (IF ~Truthy(p.eventType) \/ p.eventType.t # "string"
                    THEN << "event.eventType" >> ELSE << >>)
                 \o (IF ~Truthy(p.timestamp) \/ p.timestamp.t # "number"
                    THEN << "event.timestamp" >> ELSE << >>)
                 \o (IF ~Truthy(p.data) THEN << "event.data" >> ELSE << >>)
        errors == envelope \o command \o response \o event
    IN [valid |-> errors = << >>, errors |-> errors]

----------------------------------------------------------------------------
\* auth.ts

\* A gate that takes any non-empty string for an MCP token.
MutAuthenticateAnyToken(cfg, message) ==
    LET authToken == PayloadProp(message.payload, "authToken")
    IN  IF ~Truthy(authToken) \/ authToken.t # "string"
        THEN [success |-> FALSE, clientType |-> "", error |-> "missing"]
        ELSE [success |-> TRUE, clientType |-> "mcp", error |-> ""]

\* A gate that tries the Minecraft token before the MCP token list.
MutAuthenticateMinecraftFirst(cfg, message) ==
    LET authToken == PayloadProp(message.payload, "authToken")
    IN  IF ~Truthy(authToken) \/ authToken.t # "string"
        THEN [success |-> FALSE, clientType |-> "", error |-> "missing"]
        ELSE IF authToken.s = cfg.minecraftAuthToken
        THEN [success |-> TRUE, clientType |-> "minecraft", error |-> ""]
        ELSE IF authToken.s \in cfg.mcpAuthTokens
        THEN [success |-> TRUE, clientType |-> "mcp", error |-> ""]
        ELSE [success |-> FALSE, clientType |-> "", error |-> "invalid"]

\* AuthManager.authenticate: the role comes from the credential alone, the
\* MCP token list is tried first.  The argument is not null.
authenticate(cfg, message) ==
    LET authToken == PayloadProp(message.payload, "authToken")
    IN  IF ~Truthy(authToken) \/ authToken.t # "string"
        THEN [success |-> FALSE, clientType |-> "", error |-> "missing"]
        ELSE IF authToken.s \in cfg.mcpAuthTokens
        THEN [success |-> TRUE, clientType |-> "mcp", error |-> ""]
        ELSE IF authToken.s = cfg.minecraftAuthToken
        THEN [success |-> TRUE, clientType |-> "minecraft", error |-> ""]
        ELSE [success |-> FALSE, clientType |-> "", error |-> "invalid"]

\* `command?.startsWith(cmd)` for some cmd of the deny list: undefined and
\* null short-circuit to undefined (falsy).
SomeDangerousPrefix(command) ==
    /\ command.t = "string"
    /\ \E i \in 1..Len(dangerousCommands) :
          StartsWith(command.s, dangerousCommands[i])

\* `command?.startsWith` is not a function when command is neither nullish
\* nor a string: the call throws a TypeError.
StartsWithThrows(command) == command.t \notin { "undefined", "null", "string" }

\* An authorize that skips the role rows of the capability matrix.
MutAuthorizeNoRoleCheck(clientType, message) ==
    LET isType(name) == message.type.t = "string" /\ message.type.s = name
        command == PayloadProp(message.payload, "command")
    IN  IF isType("command") /\ StartsWithThrows(command)
        THEN [authorized |-> FALSE, reason |-> "", threw |-> TRUE]
        ELSE IF isType("command") /\ SomeDangerousPrefix(command)
        THEN [authorized |-> FALSE, reason |-> "not permitted", threw |-> FALSE]
        ELSE [authorized |-> TRUE, reason |-> "", threw |-> FALSE]

\* AuthManager.authorize.  threw = TRUE stands for the TypeError escaping the
\* call (no AuthzResult is returned).
authorize(clientType, message) ==
    LET isType(name) == message.type.t = "string" /\ message.type.s = name
        command == PayloadProp(message.payload, "command")
    IN  IF (isType("command") \/ isType("query")) /\ clientType # "mcp"
        THEN [authorized |-> FALSE, reason |-> "only mcp", threw |-> FALSE]
        ELSE IF isType("event") /\ clientType # "minecraft"
        THEN [authorized |-> FALSE, reason |-> "only minecraft", threw |-> FALSE]
        ELSE IF isType("command") /\ StartsWithThrows(command)
        THEN [authorized |-> FALSE, reason |-> "", threw |-> TRUE]
        ELSE IF isType("command") /\ SomeDangerousPrefix(command)
        THEN [authorized |-> FALSE, reason |-> "not permitted", threw |-> FALSE]
        ELSE [authorized |-> TRUE, reason |-> "", threw |-> FALSE]

----------------------------------------------------------------------------
\* connection-registry.ts: clients is the Map's entries in insertion order.

HasClient(reg, id) == \E i \in 1..Len(reg) : reg[i].id = id

\* An addClient that always adds an entry.
MutAddClientAppends(reg, id, type, version) ==
    Append(reg, [id |-> id, type |-> type, version |-> version])

\* Map.set: a key already present keeps its place and takes the new value.
addClient(reg, id, type, version) ==
    LET entry == [id |-> id, type |-> type, version |-> version]
    IN  IF HasClient(reg, id)
        THEN [i \in 1..Len(reg) |-> IF reg[i].id = id THEN entry ELSE reg[i]]
        ELSE Append(reg, entry)

\* A removeClient that leaves the Map as it is.
MutRemoveClientKeeps(reg, id) == reg

\* Map.delete of a key that is present; nothing for a key that is not.
removeClient(reg, id) == SelectSeq(reg, LAMBDA c : c.id # id)

\* A getter that hands out a list the registry goes on using.
MutClientsOfTypeLive(reg, type) ==
    [list |-> SelectSeq(reg, LAMBDA c : c.type = type), shared |-> TRUE]

\* `Array.from(this.clients.values()).filter(c => c.type === type)`: a new
\* array on every call (shared = FALSE: the registry holds no reference to
\* it), whose elements are the entries of that moment.
clientsOfType(reg, type) ==
    [list |-> SelectSeq(reg, LAMBDA c : c.type = type), shared |-> FALSE]

getMCPClients(reg) == clientsOfType(reg, "mcp").list

getMinecraftClients(reg) == clientsOfType(reg, "minecraft").list

----------------------------------------------------------------------------
\* latency-monitor.ts.  avgMs is kept as the exact fraction num / den.

latencyThreshold == 100

\* minMs of an empty scope (Infinity): above every latency of the model.
Infinity == 1000000

createEmptyMetrics ==
    [count |-> 0, totalMs |-> 0, minMs |-> Infinity, maxMs |-> 0,
     avgMs |-> [num |-> 0, den |-> 1], over100ms |-> 0]

EmptyStats == [overall |-> createEmptyMetrics, byType |-> << >>]

Min(a, b) == IF a <= b THEN a ELSE b

Max(a, b) == IF a >= b THEN a ELSE b

\* An updateMetrics that counts a latency equal to the threshold as over it.
MutUpdateMetricsAtThreshold(metrics, latencyMs) ==
    [count     |-> metrics.count + 1,
     totalMs   |-> metrics.totalMs + latencyMs,
     minMs     |-> Min(metrics.minMs, latencyMs),
     maxMs     |-> Max(metrics.maxMs, latencyMs),
     avgMs     |-> [num |-> metrics.totalMs + latencyMs,
                    den |-> metrics.count + 1],
     over100ms |-> metrics.over100ms
                   + (IF latencyMs >= latencyThreshold THEN 1 ELSE 0)]

updateMetrics(metrics, latencyMs) ==
    [count     |-> metrics.count + 1,
     totalMs   |-> metrics.totalMs + latencyMs,
     minMs     |-> Min(metrics.minMs, latencyMs),
     maxMs     |-> Max(metrics.maxMs, latencyMs),
     avgMs     |-> [num |-> metrics.totalMs + latencyMs,
                    den |-> metrics.count + 1],
     over100ms |-> metrics.over100ms
                   + (IF latencyMs > latencyThreshold THEN 1 ELSE 0)]

\* byType is the Map's entries [type, metrics] in insertion order.
TypeIndex(byType, messageType) ==
    IF \E i \in 1..Len(byType) : byType[i].type = messageType
    THEN CHOOSE i \in 1..Len(byType) : byType[i].type = messageType
    ELSE 0

\* A recordLatency that updates the overall scope only.
MutRecordLatencyOverallOnly(st, messageType, latencyMs) ==
    [st EXCEPT !.overall = updateMetrics(@, latencyMs)]

recordLatency(st, messageType, latencyMs) ==
    LET withType ==
            IF TypeIndex(st.byType, messageType) = 0
            THEN Append(st.byType,
                        [type |-> messageType, metrics |-> createEmptyMetrics])
            ELSE st.byType
        k == TypeIndex(withType, messageType)
    IN  [overall |-> updateMetrics(st.overall, latencyMs),
         byType  |-> [withType EXCEPT
                         ![k].metrics = updateMetrics(@, latencyMs)]]

----------------------------------------------------------------------------
\* message-router.ts

DefaultMaxQueueSize == 1000

maxCacheSize == 100

Digit == << "0", "1", "2", "3", "4", "5", "6", "7", "8", "9" >>

RECURSIVE NumberToString(_)
NumberToString(k) ==
    IF k < 10 THEN Digit[k + 1]
    ELSE NumberToString(k \div 10) \o << Digit[(k % 10) + 1] >>

\* Template-literal conversion of the values the cache key is built from.
TemplateString(v) ==
    CASE v.t = "string"    -> v.s
      [] v.t = "number"    -> NumberToString(v.n)
      [] v.t = "undefined" -> "undefined"
      [] v.t = "null"      -> "null"
      [] v.t = "boolean"   -> IF v.n = 1 THEN "true" ELSE "false"
      [] OTHER             -> "[object Object]"

\* `${message.id}_${message.timestamp}`
CacheKey(message) ==
    TemplateString(message.id) \o "_" \o TemplateString(message.timestamp)

\* JSON.stringify: the own properties in order, undefined ones left out.
\* The two relay timestamps are properties of the messages of the runs that
\* follow them (the other runs leave them out of the message).
JSONstringify(message) ==
    LET prop(name, v) == IF v.t = "undefined" THEN << >> ELSE << << name, v >> >>
        stamp(name) == IF name \in DOMAIN message THEN prop(name, message[name])
                       ELSE << >>
    IN  prop("version", message.version) \o prop("type", message.type)
        \o prop("id", message.id) \o prop("timestamp", message.timestamp)
        \o prop("source", message.source)
        \o prop("payload", message.payload)
        \o stamp("receivedAt") \o stamp("forwardedAt")

CacheIndex(cache, key) ==
    IF \E i \in 1..Len(cache) : cache[i].key = key
    THEN CHOOSE i \in 1..Len(cache) : cache[i].key = key
    ELSE 0

\* MessageRouter.serializeMessage: [str, cache].
serializeMessage(cache, message) ==
    LET key == CacheKey(message)
        hit == CacheIndex(cache, key)
        serialized == JSONstringify(message)
        room == IF Len(cache) >= maxCacheSize THEN Tail(cache) ELSE cache
    IN  IF hit # 0
        THEN [str |-> cache[hit].str, cache |-> cache]
        ELSE [str |-> serialized,
              cache |-> Append(room, [key |-> key, str |-> serialized])]

\* A queue that refuses the new entry when full (drop-newest).
MutQueueDropNewest(queue, cap, message, sourceClientId) ==
    IF Len(queue) >= cap THEN queue
    ELSE Append(queue, [message |-> message, sourceClientId |-> sourceClientId])

\* A queue that puts the new entry in front (unshift for push).
MutQueueMessagePrepends(queue, cap, message, sourceClientId) ==
    LET room == IF Len(queue) >= cap /\ queue # << >> THEN Tail(queue) ELSE queue
    IN  << [message |-> message, sourceClientId |-> sourceClientId] >> \o room

\* MessageRouter.queueMessage: drop the oldest entry of a full queue, then
\* push.  (QueuedMessage.timestamp is written and never read; it is left out.)
queueMessage(queue, cap, message, sourceClientId) ==
    LET room == IF Len(queue) >= cap /\ queue # << >> THEN Tail(queue) ELSE queue
    IN  Append(room, [message |-> message, sourceClientId |-> sourceClientId])

\* The router's mutable state, threaded through routeMessage.
RouterState ==
    [clients |-> clients, messageQueue |-> messageQueue,
     maxQueueSize |-> maxQueueSize, serializationCache |-> serializationCache,
     stats |-> stats]

Ids(seq) == [i \in 1..Len(seq) |-> seq[i].id]

Range(seq) == { seq[i] : i \in 1..Len(seq) }

\* A router that picks the sender's own population.
MutDestinationsSameRole(reg, message) ==
    IF message.source = Str("mcp") THEN getMCPClients(reg)
    ELSE getMinecraftClients(reg)

\* `message.source === 'mcp' ? getMinecraftClients() : getMCPClients()`
Destinations(reg, message) ==
    IF message.source = Str("mcp") THEN getMinecraftClients(reg)
    ELSE getMCPClients(reg)

\* The fan-out loop from destination i on.  throws is the set of sockets
\* whose send() throws in this call, lat[i] is Date.now() - routeStart read
\* after the i-th send.  acc = [stats, ok, latencies].
RECURSIVE FanOut(_, _, _, _, _, _)
\* A loop that a throwing send ends.
MutFanOutStopAtThrow(acc, dests, message, throws, lat, i) ==
    IF i > Len(dests) \/ dests[i].id \in throws THEN acc
    ELSE FanOut([stats     |-> recordLatency(acc.stats, message.type, lat[i]),
                 ok        |-> Append(acc.ok, dests[i].id),
                 latencies |-> Append(acc.latencies, lat[i])],
                dests, message, throws, lat, i + 1)

\* A loop that records latency for a send that threw as well.
MutFanOutRecordFailures(acc, dests, message, throws, lat, i) ==
    IF i > Len(dests) THEN acc
    ELSE FanOut([stats     |-> recordLatency(acc.stats, message.type, lat[i]),
                 ok        |-> IF dests[i].id \in throws THEN acc.ok
                               ELSE Append(acc.ok, dests[i].id),
                 latencies |-> Append(acc.latencies, lat[i])],
                dests, message, throws, lat, i + 1)

FanOut(acc, dests, message, throws, lat, i) ==
    IF i > Len(dests) THEN acc
    ELSE IF dests[i].id \in throws
    THEN FanOut(acc, dests, message, throws, lat, i + 1)
    ELSE FanOut([stats     |-> recordLatency(acc.stats, message.type, lat[i]),
                 ok        |-> Append(acc.ok, dests[i].id),
                 latencies |-> Append(acc.latencies, lat[i])],
                dests, message, throws, lat, i + 1)

\* The `for (const dest of destinations)` loop of routeMessage.
SendAll(st, dests, message, throws, lat) ==
    FanOut([stats |-> st, ok |-> << >>, latencies |-> << >>],
           dests, message, throws, lat, 1)

\* A router that queues the message again as soon as one send threw.
MutRouteMessageRequeuesOnAnyThrow(st, message, sourceClientId, throws, lat) ==
    LET destinations == Destinations(st.clients, message)
        ser == serializeMessage(st.serializationCache, message)
        fan == SendAll(st.stats, destinations, message, throws, lat)
        enqueued == queueMessage(st.messageQueue, st.maxQueueSize,
                                 message, sourceClientId)
        again == Len(fan.ok) < Len(destinations) \/ Len(destinations) = 0
    IN  [st EXCEPT !.serializationCache = IF Len(destinations) = 0 THEN @
                                          ELSE ser.cache,
                   !.stats = fan.stats,
                   !.messageQueue = IF again THEN enqueued ELSE @]
        @@ [call |-> [message |-> message, sourceClientId |-> sourceClientId,
                      attempted |-> Ids(destinations),
                      threw |-> SelectSeq(Ids(destinations),
                                          LAMBDA id : id \in throws),
                      ok |-> fan.ok, latencies |-> fan.latencies,
                      str |-> IF Len(destinations) = 0 THEN << >> ELSE ser.str,
                      queued |-> again]]

\* MessageRouter.routeMessage: the router state after the call, and in
\* `call` what the call did (the sends it attempted, in order).
routeMessage(st, message, sourceClientId, throws, lat) ==
    LET destinations == Destinations(st.clients, message)
        ser == serializeMessage(st.serializationCache, message)
        fan == SendAll(st.stats, destinations, message, throws, lat)
        enqueued == queueMessage(st.messageQueue, st.maxQueueSize,
                                 message, sourceClientId)
        base == [message |-> message, sourceClientId |-> sourceClientId,
                 attempted |-> Ids(destinations),
                 threw |-> SelectSeq(Ids(destinations), LAMBDA id : id \in throws)]
    IN  IF Len(destinations) = 0
        THEN [st EXCEPT !.messageQueue = enqueued]
             @@ [call |-> base @@ [ok |-> << >>, latencies |-> << >>,
                                   str |-> << >>, queued |-> TRUE]]
        ELSE [st EXCEPT !.serializationCache = ser.cache,
                        !.stats = fan.stats,
                        !.messageQueue = IF Len(fan.ok) = 0 THEN enqueued ELSE @]
             @@ [call |-> base @@ [ok |-> fan.ok, latencies |-> fan.latencies,
                                   str |-> ser.str,
                                   queued |-> Len(fan.ok) = 0]]

\* A router that leaves receivedAt and forwardedAt as they came.
MutRouteMessageAtUnstamped(st, message, sourceClientId, throws, lat, routeStart, now) ==
    routeMessage(st, message, sourceClientId, throws, lat)

\* routeMessage with its two timestamps: message.receivedAt = routeStart
\* first, message.forwardedAt = Date.now() once there is a destination and
\* before the message is serialised.  The message object itself is written,
\* so the queue holds it as stamped.
routeMessageAt(st, message, sourceClientId, throws, lat, routeStart, now) ==
    LET received == [message EXCEPT !.receivedAt = Num(routeStart)]
        forwarded == [received EXCEPT !.forwardedAt = Num(now)]
    IN  IF Len(Destinations(st.clients, message)) = 0
        THEN routeMessage(st, received, sourceClientId, throws, lat)
        ELSE routeMessage(st, forwarded, sourceClientId, throws, lat)

StateOf(r) ==
    [clients |-> r.clients, messageQueue |-> r.messageQueue,
     maxQueueSize |-> r.maxQueueSize,
     serializationCache |-> r.serializationCache, stats |-> r.stats]

\* The loop of processQueue over messagesToProcess from entry i on:
\* routeMessage has no await, so each call completes before the next starts.
\* acc = [st, calls].
RECURSIVE RouteEach(_, _, _, _, _)
RouteEach(acc, entries, throwsAt, latAt, i) ==
    IF i > Len(entries) THEN acc
    ELSE LET r == routeMessage(acc.st, entries[i].message,
                               entries[i].sourceClientId, throwsAt[i], latAt[i])
         IN  RouteEach([st |-> StateOf(r), calls |-> Append(acc.calls, r.call)],
                       entries, throwsAt, latAt, i + 1)

\* A processQueue that routes the entries without taking them off the queue.
MutProcessQueueNoSwap(st, throwsAt, latAt) ==
    IF Len(st.messageQueue) = 0 THEN [st |-> st, calls |-> << >>]
    ELSE RouteEach([st |-> st, calls |-> << >>],
                   st.messageQueue, throwsAt, latAt, 1)

\* MessageRouter.processQueue: swap the queue out, route every entry again.
processQueue(st, throwsAt, latAt) ==
    IF Len(st.messageQueue) = 0 THEN [st |-> st, calls |-> << >>]
    ELSE RouteEach([st |-> [st EXCEPT !.messageQueue = << >>], calls |-> << >>],
                   st.messageQueue, throwsAt, latAt, 1)

\* The loop of processQueue with the clock: times[i] are the two Date.now()
\* readings of the i-th call.
RECURSIVE RouteEachAt(_, _, _, _, _, _)
RouteEachAt(acc, entries, throwsAt, latAt, times, i) ==
    IF i > Len(entries) THEN acc
    ELSE LET r == routeMessageAt(acc.st, entries[i].message,
                                 entries[i].sourceClientId, throwsAt[i],
                                 latAt[i], times[i][1], times[i][2])
         IN  RouteEachAt([st |-> StateOf(r), calls |-> Append(acc.calls, r.call)],
                         entries, throwsAt, latAt, times, i + 1)

processQueueAt(st, throwsAt, latAt, times) ==
    IF Len(st.messageQueue) = 0 THEN [st |-> st, calls |-> << >>]
    ELSE RouteEachAt([st |-> [st EXCEPT !.messageQueue = << >>],
                      calls |-> << >>],
                     st.messageQueue, throwsAt, latAt, times, 1)

----------------------------------------------------------------------------
\* The MCP side's BridgeClient (bridge-client.ts of the MCP server).

\* config.reconnectAttempts of the clients of the model.
reconnectAttempts == 1

\* resolve / reject: the first call settles the promise, later ones do
\* nothing.
Settle(req, how, by) ==
    IF req.promise = "pending" THEN [req EXCEPT !.promise = how, !.by = by]
    ELSE req

\* `clearTimeout(pending.timeout); this.pendingRequests.delete(id)`
Forget(req) ==
    [req EXCEPT !.entry = FALSE,
                !.timeout = IF @ = "armed" THEN "cleared" ELSE @]

\* connect(): nothing while the current socket is OPEN or CONNECTING, else
\* a new WebSocket with its four listeners.
connect(b) ==
    IF b.ws # 0 /\ b.socks[b.ws] \in { "open", "connecting" } THEN b
    ELSE [b EXCEPT !.socks = Append(@, "connecting"), !.ws = Len(b.socks) + 1]

\* attemptReconnect(): arm the reconnection timer unless the attempts are
\* used up.
attemptReconnect(b) ==
    IF b.reconnectCount >= reconnectAttempts THEN b
    ELSE [b EXCEPT !.reconnectCount = @ + 1, !.reconnectTimer = TRUE]

\* handleMessage(message) under the try of the 'message' listener.  For a
\* response whose id is pending: clearTimeout, delete, then
\* `responseMessage.payload.success`, a TypeError when the payload is null
\* or absent ("none"), which the listener catches and logs.
handleMessage(b, message) ==
    IF /\ message.type \in { "response", "error" }
       /\ b.requests[message.id].entry
    THEN [b EXCEPT !.requests[message.id] =
            IF message.type = "error"
            THEN Settle(Forget(@), "rejected", "error")
            ELSE IF message.payload = "none" THEN Forget(@)
            ELSE IF message.payload = "success"
            THEN Settle(Forget(@), "resolved", "response")
            ELSE Settle(Forget(@), "rejected", "response")]
    ELSE b

\* sendMessage(type, payload): the promise it returns and what the executor
\* did.  Not connected: rejected at once.  Else the timeout is armed and the
\* id entered before ws.send is called; ws.send throws on a socket that is
\* still CONNECTING (the executor's exception rejects the promise), hands an
\* error to its callback later when the socket is not OPEN or the write
\* fails, and else the frame is on its way.
sendMessage(b, writeFails) ==
    LET request ==
            [promise |-> "pending", by |-> "", entry |-> TRUE,
             timeout |-> "armed", wire |-> "sent", sock |-> b.ws]
    IN  IF ~b.isConnected \/ b.ws = 0
        THEN [request EXCEPT !.promise = "rejected", !.by = "CONNECTION_ERROR",
                             !.entry = FALSE, !.timeout = "none",
                             !.wire = "none"]
        ELSE IF b.socks[b.ws] = "connecting"
        THEN [request EXCEPT !.promise = "rejected", !.by = "thrown",
                             !.wire = "none"]
        ELSE IF b.socks[b.ws] # "open" \/ writeFails
        THEN [request EXCEPT !.wire = "failing"]
        ELSE request

\* The setTimeout callback of a request: delete the id, reject.
timeoutFires(req) ==
    Settle([req EXCEPT !.entry = FALSE, !.timeout = "fired"],
           "rejected", "TIMEOUT")

\* The callback of ws.send called with an error.
sendCallback(req) ==
    [Settle(Forget(req), "rejected", "send") EXCEPT !.wire = "failed"]

----------------------------------------------------------------------------
\* The sockets, the tokens and the frames of the model.

Conns == { "c1", "c2" }

\* Date.now() - routeStart as read after a send.
Latencies == { 100, 101 }

\* Non-decreasing latency readings for the n destinations of one call.
LatencyReadings(n) ==
    { l \in [1..n -> Latencies] : \A i, j \in 1..n : i <= j => l[i] <= l[j] }

T_mcp == "m"

T_minecraft == "k"

T_invalid == "x"

Configs ==
    { [mcpAuthTokens |-> { T_mcp }, minecraftAuthToken |-> T_minecraft,
       messageQueueSize |-> q] : q \in 1..MaxCap }

Id_a == Str("a")

Id_b == Str("b")

Msg(type, id, source, payload) ==
    BridgeMessage(Str(VERSION), Str(type), id, Num(1), Str(source), payload)

CommandPayload(command, argsCommand) ==
    [EmptyPayload EXCEPT !.command = command, !.args = Obj,
                         !.argsCommand = argsCommand]

EventPayload ==
    [EmptyPayload EXCEPT !.eventType = Str("j"), !.timestamp = Num(1),
                         !.data = Obj]

AuthPayload(token) == [EmptyPayload EXCEPT !.authToken = token]

Tokens == { Str(T_mcp), Str(T_minecraft), Str(T_invalid), Str(""), Undef, Num(7) }

\* First frames: a credential, with the version present or absent.
AuthMessages ==
    { Msg("command", Id_a, "mcp", AuthPayload(tok)) : tok \in Tokens }
    \cup { [Msg("command", Id_a, "mcp", AuthPayload(Str(T_mcp)))
               EXCEPT !.version = Undef],
           Msg("command", Id_a, "mcp", NoPayload) }

CmdSay(source) == Msg("command", Id_a, source, CommandPayload(Str("say"), Undef))

CmdStop == Msg("command", Id_a, "mcp", CommandPayload(Str("stop"), Undef))

CmdExecute(argsCommand) ==
    Msg("command", Id_a, "mcp",
        CommandPayload(Str("execute_command"), Str(argsCommand)))

EventMsg(source) == Msg("event", Id_b, source, EventPayload)

QueryMsg(source) == Msg("query", Id_b, source, EmptyPayload)

ResponseMsg ==
    Msg("response", Id_a, "minecraft", [EmptyPayload EXCEPT !.success = Bool(TRUE)])

\* An event whose payload lacks every required field.
BadEventMsg == Msg("event", Id_b, "minecraft", EmptyPayload)

DataMessages ==
    { CmdSay("mcp"), CmdStop, CmdExecute("stop"), EventMsg("minecraft"),
      QueryMsg("mcp"), BadEventMsg }

\* A frame is what JSON.parse makes of the bytes: it throws ("garbage"),
\* yields null, a primitive, or an object.
Frames ==
    { [kind |-> "object", message |-> m] : m \in AuthMessages \cup DataMessages }
    \cup { [kind |-> k, message |-> PrimitiveMessage] :
             k \in { "garbage", "null", "primitive" } }

NoFrame == [kind |-> "none", message |-> PrimitiveMessage]

\* What the relay sends to a socket.  detail is payload.error.message of an
\* error reply, as the list of the texts it is made of.
Reply(to, type, id, code) ==
    [to |-> to, type |-> type, id |-> id, code |-> code, detail |-> << >>]

\* BridgeServer.sendError / sendResponse: one send to the frame's sender.
sendError(to, messageId, code, message) ==
    << [Reply(to, "error", messageId, code) EXCEPT !.detail = message] >>

sendResponse(to, messageId) == << Reply(to, "response", messageId, "") >>

\* escaped: an exception left the handler.  fault: routeMessage threw.
Did(op, conn, frame, calls, replies) ==
    [op |-> op, conn |-> conn, frame |-> frame, calls |-> calls,
     replies |-> replies, escaped |-> FALSE, fault |-> FALSE]

\* isAlive is the heartbeat flag of the socket.  pinged, missed and seen
\* record the history: a ping was sent and no pong has come since; how many
\* pings in a row were still unanswered at the following tick; how the
\* frames handled so far on the socket ended.
NoSocket ==
    [state |-> "idle", authenticated |-> FALSE, clientType |-> "",
     clientVersion |-> Undef, isAlive |-> TRUE, pinged |-> FALSE,
     missed |-> 0, seen |-> {}]

NoAuthz == [done |-> FALSE, authorized |-> FALSE, reason |-> "", threw |-> FALSE]

NoAuthzInput == [clientType |-> "mcp", message |-> PrimitiveMessage]

\* reconnection.ts: the fields of a ReconnectionManager.  socks are the
\* WebSockets it has created (ws is the index of the last, 0 for undefined),
\* timers the setTimeout calls it has made (reconnectTimeout is the index of
\* the last).  connectionAttempts, openedAt and disconnectedAt record the
\* history: attemptConnection calls, timers armed before the last 'open',
\* attempts made before disconnect().
NewManager(cfg) ==
    [config |-> cfg, started |-> FALSE, attempts |-> 0, reconnectTimeout |-> 0,
     ws |-> 0, socks |-> << >>, timers |-> << >>, connectionAttempts |-> 0,
     everOpened |-> FALSE, openedAt |-> 0,
     disconnected |-> FALSE, disconnectedAt |-> 0]

NoManager ==
    NewManager([maxAttempts |-> 0, initialDelay |-> 0, maxDelay |-> 0,
                urlValid |-> TRUE])

\* Nothing submitted to the router, no send has succeeded.
NoDeliveries == [submitted |-> {}, once |-> {}, twice |-> {}]

\* latency-monitor.ts: reportTimer is undefined (0) and no interval is armed.
\* armed are the handles setInterval returned and clearInterval has not
\* been given; created counts the setInterval calls.
NoReportTimer == [reportTimer |-> 0, armed |-> {}, created |-> 0, stopped |-> FALSE]

\* A BridgeClient before connect().  socks are the readyStates of the
\* WebSockets it has created (ws is the index of the current one, 0 for
\* null); requests are the sendMessage calls made, in order: the promise
\* each returned, whether pendingRequests holds its id, its timeout and what
\* became of the send; received counts the frames taken from the server.
NoClient ==
    [isConnected |-> FALSE, ws |-> 0, socks |-> << >>, reconnectCount |-> 0,
     reconnectTimer |-> FALSE, requests |-> << >>, received |-> 0]

\* No getStats() call has returned yet.
NoReturned ==
    [taken |-> FALSE, overall |-> createEmptyMetrics, byType |-> << >>,
     shared |-> FALSE]

----------------------------------------------------------------------------
\* index.ts: BridgeServer.handleConnection, the 'message' handler.

\* `JSON.parse(data.toString()).id || 'unknown'` of the catch block.
IdOrUnknown(message) == IF Truthy(message.id) THEN message.id ELSE Str("unknown")

\* negotiateVersion calls clientVersion.split('.'): a TypeError unless the
\* version is a string.
NegotiateVersionThrows(message) == message.version.t # "string"

\* A handler that treats every socket as authenticated.
MutNeverNeedsAuthentication(socket) == FALSE

\* `if (!authenticated)`
NeedsAuthentication(socket) == ~socket.authenticated

\* A handler that sets the heartbeat flag of the socket on every frame.
MutHandledRevives(socket, reg, st, calls, replies) ==
    [socket |-> [socket EXCEPT !.isAlive = TRUE], clients |-> reg, st |-> st,
     calls |-> calls, replies |-> replies, escaped |-> FALSE, fault |-> FALSE]

Handled(socket, reg, st, calls, replies) ==
    [socket |-> socket, clients |-> reg, st |-> st, calls |-> calls,
     replies |-> replies, escaped |-> FALSE, fault |-> FALSE]

\* The text of every SERVER_ERROR reply.
InternalServerError == << "Internal server error" >>

\* `JSON.parse(data.toString())` of the catch block throws, or yields null
\* whose `.id` throws.
RetryThrows(frame) == frame.kind \in { "garbage", "null" }

\* A catch block whose second parse is not wrapped in a try of its own.
MutCatchBlockUnguarded(c, frame) ==
    IF RetryThrows(frame)
    THEN [replies |-> << >>, escaped |-> TRUE]
    ELSE [replies |-> sendError(c, IdOrUnknown(frame.message), "SERVER_ERROR",
                                InternalServerError),
          escaped |-> FALSE]

\* The catch block of the handler: log, then in a try of its own parse the
\* frame again for its id and send SERVER_ERROR; an exception of that try is
\* swallowed and nothing is sent.
CatchBlock(c, frame) ==
    IF RetryThrows(frame)
    THEN [replies |-> << >>, escaped |-> FALSE]
    ELSE [replies |-> sendError(c, IdOrUnknown(frame.message), "SERVER_ERROR",
                                InternalServerError),
          escaped |-> FALSE]

\* The handler after an exception of its try block, thrown with the socket's
\* closure as in socket.
Caught(c, frame, socket, reg, st) ==
    [Handled(socket, reg, st, << >>, CatchBlock(c, frame).replies)
        EXCEPT !.escaped = CatchBlock(c, frame).escaped]

\* JSON.stringify is reached by routeMessage: there is a destination and
\* the cache holds nothing under the message's key.
Serializes(st, message) ==
    /\ Len(Destinations(st.clients, message)) > 0
    /\ CacheIndex(st.serializationCache, CacheKey(message)) = 0

\* A router whose catch block logs the exception and does not throw it on.
MutRouteFailedSwallowed(c, frame, socket, reg, st) ==
    [Handled(socket, reg, st, << >>, << >>) EXCEPT !.fault = TRUE]

\* routeMessage threw before its first send: its catch block logs and throws
\* again, `await` passes the exception to the handler's catch block.
RouteFailed(c, frame, socket, reg, st) ==
    [Caught(c, frame, socket, reg, st) EXCEPT !.fault = TRUE]

\* A handler that closes the socket of a frame that fails validation.
MutSchemaRejectedCloses(c, socket, reg, st, message, errors) ==
    Handled([socket EXCEPT !.state = "closing"], reg, st, << >>,
            sendError(c, message.id, "SCHEMA_ERROR", errors))

\* `if (!validationResult.valid)`: warn, send SCHEMA_ERROR with the errors
\* joined, return.
SchemaRejected(c, socket, reg, st, message, errors) ==
    Handled(socket, reg, st, << >>,
            sendError(c, message.id, "SCHEMA_ERROR", errors))

\* The handler on socket c for one frame.  Frames that do not parse, and
\* null (whose property access throws), end in the catch block.  fault: the
\* serialisation inside routeMessage throws, when it is reached; the catch
\* block of routeMessage logs and throws again, into the handler's.
OnMessageWith(c, frame, throws, lat, fault) ==
    LET w == ws[c]
        message == frame.message
        st == RouterState
        authResult == authenticate(config, message)
        accepted == [w EXCEPT !.authenticated = TRUE,
                              !.clientType = authResult.clientType,
                              !.clientVersion = message.version]
        validationResult == validateMessage(message)
        authzResult == authorize(w.clientType, message)
        routed == routeMessage(st, message, c, throws, lat)
    IN  IF frame.kind \in { "garbage", "null" }
        THEN Caught(c, frame, w, clients, st)
        ELSE IF NeedsAuthentication(w)
        THEN IF ~authResult.success
             THEN Handled([w EXCEPT !.state = "closing"], clients, st, << >>,
                          sendError(c, message.id, "AUTH_FAILED",
                                    << authResult.error >>))
             ELSE IF NegotiateVersionThrows(message)
             THEN Caught(c, frame, accepted, clients, st)
             ELSE Handled(accepted,
                          addClient(clients, c, authResult.clientType,
                                    message.version),
                          st, << >>, sendResponse(c, message.id))
        ELSE IF ~validationResult.valid
        THEN SchemaRejected(c, w, clients, st, message, validationResult.errors)
        ELSE IF message.type = Str("command") /\ authzResult.threw
        THEN Caught(c, frame, w, clients, st)
        ELSE IF message.type = Str("command") /\ ~authzResult.authorized
        THEN Handled(w, clients, st, << >>,
                     sendError(c, message.id, "PERMISSION_DENIED",
                               << authzResult.reason >>))
        ELSE IF fault /\ Serializes(st, message)
        THEN RouteFailed(c, frame, w, clients, st)
        ELSE Handled(w, clients, StateOf(routed), << routed.call >>, << >>)

\* The handler in a run where no serialisation throws.
OnMessage(c, frame, throws, lat) == OnMessageWith(c, frame, throws, lat, FALSE)

----------------------------------------------------------------------------
\* The running BridgeServer.

\* Single-threaded event loop: a handler runs to completion (no await
\* suspends any of them before its last statement), and the next event is
\* taken only when no handler is running.
NoHandler == Did("idle", "", NoFrame, << >>, << >>)

Idle == last = NoHandler

\* The running handler returns to the event loop.  An exception that left
\* an async handler is an unhandled rejection, which ends the process.
Return ==
    /\ ~Idle
    /\ ~last.escaped
    /\ last' = NoHandler
    /\ UNCHANGED << config, ws, clients, messageQueue, maxQueueSize,
                    serializationCache, stats, arrivals, ops, fnIn, fnOut, rm, returned,
                    clock,
                    delivered, reportTimer, bc >>

\* new BridgeServer(config): the router is built without a queue size.
Init ==
    /\ config \in Configs
    /\ ws = [c \in Conns |-> NoSocket]
    /\ clients = << >>
    /\ messageQueue = << >>
    /\ maxQueueSize = DefaultMaxQueueSize
    /\ serializationCache = << >>
    /\ stats = EmptyStats
    /\ last = NoHandler
    /\ arrivals = [routed |-> << >>, everRegistered |-> FALSE]
    /\ ops = 0
    /\ fnIn = NoAuthzInput
    /\ fnOut = NoAuthz
    /\ rm = NoManager
    /\ returned = NoReturned
    /\ clock = 0
    /\ delivered = NoDeliveries
    /\ reportTimer = NoReportTimer
    /\ bc = NoClient

\* wss 'connection': a new socket, its handler not yet authenticated.
Connect(c) ==
    /\ Idle
    /\ ws[c].state = "idle"
    /\ ws' = [ws EXCEPT ![c].state = "open", ![c].isAlive = TRUE]
    /\ last' = Did("connection", c, NoFrame, << >>, << >>)
    /\ UNCHANGED << config, clients, messageQueue, maxQueueSize,
                    serializationCache, stats, arrivals, ops, fnIn, fnOut, rm, returned,
                    clock,
                    delivered, reportTimer, bc >>

\* ws 'message'.  A socket the relay has closed still delivers the frames
\* that arrive before the close handshake completes.  throws and lat are the
\* outcomes of the sends a routeMessage call would make.
HandleFrame(c, frame) ==
    /\ Idle
    /\ ws[c].state \in { "open", "closing" }
    /\ \E throws \in SUBSET Range(Ids(Destinations(clients, frame.message))) :
       \E lat \in LatencyReadings(Len(Destinations(clients, frame.message))) :
       \E h \in { OnMessage(c, frame, throws, lat) } :
              /\ h.calls # << >> => ops < MaxRelayed
              /\ ws' = [ws EXCEPT ![c] = h.socket]
              /\ clients' = h.clients
              /\ messageQueue' = h.st.messageQueue
              /\ serializationCache' = h.st.serializationCache
              /\ stats' = h.st.stats
              /\ last' = [Did("message", c, frame, h.calls, h.replies)
                              EXCEPT !.escaped = h.escaped]
              /\ ops' = ops + Len(h.calls)
    /\ UNCHANGED << config, maxQueueSize, arrivals, fnIn, fnOut, rm, returned,
                    clock,
                    delivered, reportTimer, bc >>

HandleMessage(c) == \E frame \in Frames : HandleFrame(c, frame)

\* ws 'close': the peer closed, the close handshake completed, or the socket
\* was terminated.
Close(c) ==
    /\ Idle
    /\ ws[c].state \in { "open", "closing", "terminated" }
    /\ ws' = [ws EXCEPT ![c].state = "closed"]
    /\ clients' = IF ws[c].authenticated THEN removeClient(clients, c)
                  ELSE clients
    /\ last' = Did("close", c, NoFrame, << >>, << >>)
    /\ UNCHANGED << config, messageQueue, maxQueueSize, serializationCache,
                    stats, arrivals, ops, fnIn, fnOut, rm, returned, clock,
                    delivered, reportTimer, bc >>

Next ==
    \/ \E c \in Conns : Connect(c) \/ HandleMessage(c) \/ Close(c)
    \/ Return

Spec == Init /\ [][Next]_vars

\* The same server with the event loop running: a handler that has started
\* returns.  Nothing obliges a peer to connect, send or close.
SpecRunning == Spec /\ WF_vars(Return)

----------------------------------------------------------------------------
\* The running BridgeServer in an environment where JSON.stringify may throw
\* inside routeMessage.  Every socket keeps, in seen, how its frames ended.

FaultFrames ==
    { [kind |-> "object", message |-> m] :
        m \in { Msg("command", Id_a, "mcp", AuthPayload(Str(T_mcp))),
                Msg("command", Id_a, "minecraft", AuthPayload(Str(T_minecraft))),
                Msg("command", Id_a, "mcp", AuthPayload(Str(T_invalid))),
                CmdSay("mcp"), EventMsg("minecraft"), BadEventMsg } }
    \cup { [kind |-> k, message |-> PrimitiveMessage] :
             k \in { "garbage", "null", "primitive" } }

\* How the handling of a frame ended, as its sender sees it.
Outcome(h) ==
    IF h.calls # << >> THEN "routed"
    ELSE IF h.replies = << >> THEN "dropped"
    ELSE IF h.replies[1].type = "response" THEN "accepted"
    ELSE h.replies[1].code

\* ws 'message', with or without a fault in the serialisation.
HandleFrameF(c, frame) ==
    /\ Idle
    /\ ws[c].state \in { "open", "closing" }
    /\ ops < MaxFrames
    /\ \E fault \in BOOLEAN :
       \E throws \in SUBSET Range(Ids(Destinations(clients, frame.message))) :
       \E lat \in LatencyReadings(Len(Destinations(clients, frame.message))) :
       \E h \in { OnMessageWith(c, frame, throws, lat, fault) } :
              /\ ws' = [ws EXCEPT ![c] = [h.socket EXCEPT
                                            !.seen = @ \cup { Outcome(h) }]]
              /\ clients' = h.clients
              /\ messageQueue' = h.st.messageQueue
              /\ serializationCache' = h.st.serializationCache
              /\ stats' = h.st.stats
              /\ last' = [Did("message", c, frame, h.calls, h.replies)
                              EXCEPT !.escaped = h.escaped, !.fault = h.fault]
    /\ ops' = ops + 1
    /\ UNCHANGED << config, maxQueueSize, arrivals, fnIn, fnOut, rm, returned,
                    clock,
                    delivered, reportTimer, bc >>

NextFaults ==
    \/ \E c \in Conns : Connect(c)
    \/ \E c \in Conns, frame \in FaultFrames : HandleFrameF(c, frame)
    \/ \E c \in Conns : Close(c)
    \/ Return

SpecFaults == Init /\ [][NextFaults]_vars

----------------------------------------------------------------------------
\* A MessageRouter and its ConnectionRegistry driven through their public
\* methods, as message-router.test.ts does: addClient, removeClient,
\* routeMessage, processQueue.

RouterMessages == { CmdSay("mcp"), EventMsg("minecraft") }

RouterSources == { "source1" }

\* new MessageRouter(registry, logger, latencyMonitor, N)
InitRouter ==
    /\ maxQueueSize \in 1..MaxCap
    /\ config = [mcpAuthTokens |-> { T_mcp }, minecraftAuthToken |-> T_minecraft,
                 messageQueueSize |-> maxQueueSize]
    /\ ws = [c \in Conns |-> NoSocket]
    /\ clients = << >>
    /\ messageQueue = << >>
    /\ serializationCache = << >>
    /\ stats = EmptyStats
    /\ last = NoHandler
    /\ arrivals = [routed |-> << >>, everRegistered |-> FALSE]
    /\ ops = 0
    /\ fnIn = NoAuthzInput
    /\ fnOut = NoAuthz
    /\ rm = NoManager
    /\ returned = NoReturned
    /\ clock = 0
    /\ delivered = NoDeliveries
    /\ reportTimer = NoReportTimer
    /\ bc = NoClient

\* The router and registry that `new BridgeServer(config)` builds: the
\* router is constructed without the configured queue size.
InitServerRouter ==
    /\ config \in Configs
    /\ maxQueueSize = DefaultMaxQueueSize
    /\ ws = [c \in Conns |-> NoSocket]
    /\ clients = << >>
    /\ messageQueue = << >>
    /\ serializationCache = << >>
    /\ stats = EmptyStats
    /\ last = NoHandler
    /\ arrivals = [routed |-> << >>, everRegistered |-> FALSE]
    /\ ops = 0
    /\ fnIn = NoAuthzInput
    /\ fnOut = NoAuthz
    /\ rm = NoManager
    /\ returned = NoReturned
    /\ clock = 0
    /\ delivered = NoDeliveries
    /\ reportTimer = NoReportTimer
    /\ bc = NoClient

\* registry.addClient(id, ws, type, version)
AddClient(id, type) ==
    /\ Idle
    /\ clients' = addClient(clients, id, type, Str(VERSION))
    /\ last' = Did("addClient", id, NoFrame, << >>, << >>)
    /\ arrivals' = [routed |-> << >>, everRegistered |-> TRUE]
    /\ UNCHANGED << config, ws, messageQueue, maxQueueSize, serializationCache,
                    stats, ops, fnIn, fnOut, rm, returned, clock,
                    delivered, reportTimer, bc >>

\* registry.removeClient(id)
RemoveClient(id) ==
    /\ Idle
    /\ HasClient(clients, id)
    /\ clients' = removeClient(clients, id)
    /\ last' = Did("removeClient", id, NoFrame, << >>, << >>)
    /\ UNCHANGED << config, ws, messageQueue, maxQueueSize, serializationCache,
                    stats, arrivals, ops, fnIn, fnOut, rm, returned, clock,
                    delivered, reportTimer, bc >>

\* router.routeMessage(message, sourceClientId)
RouteMessage(message, sourceClientId) ==
    /\ Idle
    /\ ops < MaxRoutes
    /\ \E throws \in SUBSET Range(Ids(Destinations(clients, message))) :
       \E lat \in LatencyReadings(Len(Destinations(clients, message))) :
       \E r \in { routeMessage(RouterState, message, sourceClientId, throws, lat) } :
          /\ messageQueue' = r.messageQueue
          /\ serializationCache' = r.serializationCache
          /\ stats' = r.stats
          /\ last' = Did("routeMessage", sourceClientId, NoFrame, << r.call >>, << >>)
    /\ arrivals' = IF arrivals.everRegistered THEN arrivals
                   ELSE [arrivals EXCEPT !.routed = Append(@, message)]
    /\ ops' = ops + 1
    /\ UNCHANGED << config, ws, clients, maxQueueSize, fnIn, fnOut, rm, returned,
                    clock,
                    delivered, reportTimer, bc >>

\* router.processQueue(): throwsAt[i], latAt[i] are the outcomes of the
\* sends of the i-th re-routed entry.
ProcessQueue ==
    /\ Idle
    /\ ops + Len(messageQueue) <= MaxRoutes
    /\ \E throwsAt \in [1..Len(messageQueue) -> SUBSET Range(Ids(clients))] :
       \E latAt \in [1..Len(messageQueue) -> LatencyReadings(Len(clients))] :
       \E r \in { processQueue(RouterState, throwsAt, latAt) } :
          /\ messageQueue' = r.st.messageQueue
          /\ serializationCache' = r.st.serializationCache
          /\ stats' = r.st.stats
          /\ last' = Did("processQueue", "", NoFrame, r.calls, << >>)
    /\ ops' = ops + Len(messageQueue)
    /\ UNCHANGED << config, ws, clients, maxQueueSize, arrivals, fnIn, fnOut, rm, returned,
                    clock,
                    delivered, reportTimer, bc >>

NextRouter ==
    \/ \E id \in Conns, type \in VALID_MESSAGE_SOURCES : AddClient(id, type)
    \/ \E id \in Conns : RemoveClient(id)
    \/ \E message \in RouterMessages, src \in RouterSources :
          RouteMessage(message, src)
    \/ ProcessQueue
    \/ Return

SpecRouter == InitRouter /\ [][NextRouter]_vars

\* The same router where every message is handed to routeMessage once, with
\* the record of the sends that succeeded.

\* The sends of the calls that did not throw, as [message, to].
RECURSIVE Successes(_)
Successes(calls) ==
    IF calls = << >> THEN << >>
    ELSE [i \in 1..Len(Head(calls).ok) |->
            [message |-> Head(calls).message, to |-> Head(calls).ok[i]]]
         \o Successes(Tail(calls))

\* delivered after the sends of calls: once holds every [message, to] sent
\* so far, twice those sent more than once.
Recorded(d, calls) ==
    LET s == Successes(calls)
        again == { j \in 1..Len(s) :
                     \/ s[j] \in d.once
                     \/ \E k \in 1..Len(s) : k # j /\ s[k] = s[j] }
    IN  [d EXCEPT !.once = @ \cup Range(s),
                  !.twice = @ \cup { s[j] : j \in again }]

\* router.routeMessage(message, sourceClientId), for a message not handed
\* to the router before.
SubmitOnce(message, sourceClientId) ==
    /\ Idle
    /\ ops < MaxOnce
    /\ message \notin delivered.submitted
    /\ \E throws \in SUBSET Range(Ids(Destinations(clients, message))) :
       \E lat \in LatencyReadings(Len(Destinations(clients, message))) :
       \E r \in { routeMessage(RouterState, message, sourceClientId, throws, lat) } :
          /\ messageQueue' = r.messageQueue
          /\ serializationCache' = r.serializationCache
          /\ stats' = r.stats
          /\ last' = Did("routeMessage", sourceClientId, NoFrame, << r.call >>, << >>)
          /\ delivered' = [Recorded(delivered, << r.call >>)
                              EXCEPT !.submitted = @ \cup { message }]
    /\ ops' = ops + 1
    /\ UNCHANGED << config, ws, clients, maxQueueSize, arrivals, fnIn, fnOut,
                    rm, returned, clock, reportTimer, bc >>

\* router.processQueue()
DrainQueue ==
    /\ Idle
    /\ messageQueue # << >>
    /\ ops + Len(messageQueue) <= MaxOnce
    /\ \E throwsAt \in [1..Len(messageQueue) -> SUBSET Range(Ids(clients))] :
       \E latAt \in [1..Len(messageQueue) -> LatencyReadings(Len(clients))] :
       \E r \in { processQueue(RouterState, throwsAt, latAt) } :
          /\ messageQueue' = r.st.messageQueue
          /\ serializationCache' = r.st.serializationCache
          /\ stats' = r.st.stats
          /\ last' = Did("processQueue", "", NoFrame, r.calls, << >>)
          /\ delivered' = Recorded(delivered, r.calls)
    /\ ops' = ops + Len(messageQueue)
    /\ UNCHANGED << config, ws, clients, maxQueueSize, arrivals, fnIn, fnOut,
                    rm, returned, clock, reportTimer, bc >>

NextOnce ==
    \/ \E id \in Conns, type \in VALID_MESSAGE_SOURCES : AddClient(id, type)
    \/ \E id \in Conns : RemoveClient(id)
    \/ \E message \in RouterMessages, src \in RouterSources :
          SubmitOnce(message, src)
    \/ DrainQueue
    \/ Return

SpecOnce == InitRouter /\ [][NextOnce]_vars

\* A BridgeClient driven by its caller, its server and its timers.

\* The frames the server may send about request id.
ClientFrames(id) ==
    { [type |-> "response", id |-> id, payload |-> p] :
        p \in { "success", "failed", "none" } }
    \cup { [type |-> "error", id |-> id, payload |-> "error"],
           [type |-> "event", id |-> id, payload |-> "event"] }

\* The client of a fresh process: bc is NoClient, the rest is at rest.
InitClient == InitRouter

\* client.connect(), by the caller
BcConnect ==
    /\ Len(bc.socks) < MaxSockets
    /\ bc' = connect(bc)
    /\ bc' # bc
    /\ last' = Did("connect", "", NoFrame, << >>, << >>)
    /\ UNCHANGED << config, ws, clients, messageQueue, maxQueueSize,
                    serializationCache, stats, arrivals, ops, fnIn, fnOut, rm,
                    returned, clock, delivered, reportTimer >>

\* The reconnection timer fires: connect().
BcReconnect ==
    /\ bc.reconnectTimer
    /\ Len(bc.socks) < MaxSockets
    /\ bc' = [connect(bc) EXCEPT !.reconnectTimer = FALSE]
    /\ last' = Did("reconnect", "", NoFrame, << >>, << >>)
    /\ UNCHANGED << config, ws, clients, messageQueue, maxQueueSize,
                    serializationCache, stats, arrivals, ops, fnIn, fnOut, rm,
                    returned, clock, delivered, reportTimer >>

\* 'open' of socket k
BcOpen(k) ==
    /\ k \in 1..Len(bc.socks)
    /\ bc.socks[k] = "connecting"
    /\ bc' = [bc EXCEPT !.socks[k] = "open", !.isConnected = TRUE,
                        !.reconnectCount = 0]
    /\ last' = Did("open", "", NoFrame, << >>, << >>)
    /\ UNCHANGED << config, ws, clients, messageQueue, maxQueueSize,
                    serializationCache, stats, arrivals, ops, fnIn, fnOut, rm,
                    returned, clock, delivered, reportTimer >>

\* The closing handshake of socket k starts (the server's close frame has
\* come): readyState is CLOSING, 'close' is not yet emitted.
BcClosing(k) ==
    /\ k \in 1..Len(bc.socks)
    /\ bc.socks[k] = "open"
    /\ bc' = [bc EXCEPT !.socks[k] = "closing"]
    /\ last' = Did("closing", "", NoFrame, << >>, << >>)
    /\ UNCHANGED << config, ws, clients, messageQueue, maxQueueSize,
                    serializationCache, stats, arrivals, ops, fnIn, fnOut, rm,
                    returned, clock, delivered, reportTimer >>

\* 'close' of socket k
BcClose(k) ==
    /\ k \in 1..Len(bc.socks)
    /\ bc.socks[k] \in { "connecting", "open", "closing" }
    /\ bc' = attemptReconnect([bc EXCEPT !.socks[k] = "closed",
                                         !.isConnected = FALSE])
    /\ last' = Did("close", "", NoFrame, << >>, << >>)
    /\ UNCHANGED << config, ws, clients, messageQueue, maxQueueSize,
                    serializationCache, stats, arrivals, ops, fnIn, fnOut, rm,
                    returned, clock, delivered, reportTimer >>

\* client.disconnect()
BcDisconnect ==
    /\ bc.ws # 0
    /\ bc' = [bc EXCEPT !.reconnectTimer = FALSE,
                        !.socks[bc.ws] = IF @ = "closed" THEN @ ELSE "closing",
                        !.ws = 0, !.isConnected = FALSE]
    /\ last' = Did("disconnect", "", NoFrame, << >>, << >>)
    /\ UNCHANGED << config, ws, clients, messageQueue, maxQueueSize,
                    serializationCache, stats, arrivals, ops, fnIn, fnOut, rm,
                    returned, clock, delivered, reportTimer >>

\* client.sendCommand(...) or client.sendQuery(...)
BcSend ==
    /\ Len(bc.requests) < MaxRequests
    /\ \E writeFails \in BOOLEAN :
          bc' = [bc EXCEPT !.requests = Append(@, sendMessage(bc, writeFails))]
    /\ last' = Did("sendMessage", "", NoFrame, << >>, << >>)
    /\ UNCHANGED << config, ws, clients, messageQueue, maxQueueSize,
                    serializationCache, stats, arrivals, ops, fnIn, fnOut, rm,
                    returned, clock, delivered, reportTimer >>

\* The 30 s timeout of request id elapses.
BcTimeout(id) ==
    /\ id \in 1..Len(bc.requests)
    /\ bc.requests[id].timeout = "armed"
    /\ bc' = [bc EXCEPT !.requests[id] = timeoutFires(@)]
    /\ last' = Did("timeout", "", NoFrame, << >>, << >>)
    /\ UNCHANGED << config, ws, clients, messageQueue, maxQueueSize,
                    serializationCache, stats, arrivals, ops, fnIn, fnOut, rm,
                    returned, clock, delivered, reportTimer >>

\* ws.send calls the callback of request id with an error.
BcSendError(id) ==
    /\ id \in 1..Len(bc.requests)
    /\ bc.requests[id].wire = "failing"
    /\ bc' = [bc EXCEPT !.requests[id] = sendCallback(@)]
    /\ last' = Did("sendError", "", NoFrame, << >>, << >>)
    /\ UNCHANGED << config, ws, clients, messageQueue, maxQueueSize,
                    serializationCache, stats, arrivals, ops, fnIn, fnOut, rm,
                    returned, clock, delivered, reportTimer >>

\* 'message': a frame about a request that went out, on the socket it went
\* out on.
BcMessage(id) ==
    /\ id \in 1..Len(bc.requests)
    /\ bc.requests[id].wire = "sent"
    /\ bc.socks[bc.requests[id].sock] \in { "open", "closing" }
    /\ bc.received < MaxReceived
    /\ \E message \in ClientFrames(id) :
          bc' = [handleMessage(bc, message) EXCEPT !.received = @ + 1]
    /\ last' = Did("received", "", NoFrame, << >>, << >>)
    /\ UNCHANGED << config, ws, clients, messageQueue, maxQueueSize,
                    serializationCache, stats, arrivals, ops, fnIn, fnOut, rm,
                    returned, clock, delivered, reportTimer >>

NextClient ==
    \/ BcConnect
    \/ BcReconnect
    \/ \E k \in 1..MaxSockets : BcOpen(k) \/ BcClosing(k) \/ BcClose(k)
    \/ BcDisconnect
    \/ BcSend
    \/ \E id \in 1..MaxRequests : BcTimeout(id) \/ BcSendError(id) \/ BcMessage(id)

\* Timers that are armed fire, and a send that failed calls its callback.
SpecClient ==
    /\ InitClient
    /\ [][NextClient]_vars
    /\ \A id \in 1..MaxRequests :
          WF_vars(BcTimeout(id)) /\ WF_vars(BcSendError(id))

\* The same router with the clock and the two timestamps of each message.
\* A message as the caller hands it over has the two properties absent, or
\* set by its sender to values of its own.
Stampable(message) == message @@ [receivedAt |-> Undef, forwardedAt |-> Undef]

StampMessages ==
    { Stampable(CmdSay("mcp")),
      [Stampable(EventMsg("minecraft")) EXCEPT !.receivedAt = Num(9),
                                              !.forwardedAt = Num(1)] }

\* The Date.now() readings of n calls made one after the other, from the
\* current clock on: [routeStart, forwardedAt] per call, non-decreasing.
ClockReadings(n) ==
    { times \in [1..n -> (clock..MaxClock) \X (clock..MaxClock)] :
        /\ \A i \in 1..n : times[i][1] <= times[i][2]
        /\ \A i \in 1..(n - 1) : times[i][2] <= times[i + 1][1] }

\* Date.now() - routeStart after each of n sends: the sends take no time.
ElapsedReadings(n, time) == [i \in 1..n |-> time[2] - time[1]]

InitStamps ==
    /\ InitServerRouter
    /\ config.messageQueueSize = 1

\* router.routeMessage(message, sourceClientId)
RouteMessageAt(message, sourceClientId) ==
    /\ Idle
    /\ ops < MaxStamped
    /\ \E throws \in SUBSET Range(Ids(Destinations(clients, message))) :
       \E times \in ClockReadings(1) :
       \E r \in { routeMessageAt(RouterState, message, sourceClientId, throws,
                                 ElapsedReadings(Len(clients), times[1]),
                                 times[1][1], times[1][2]) } :
          /\ messageQueue' = r.messageQueue
          /\ serializationCache' = r.serializationCache
          /\ stats' = r.stats
          /\ last' = Did("routeMessage", sourceClientId, NoFrame, << r.call >>, << >>)
          /\ clock' = times[1][2]
    /\ ops' = ops + 1
    /\ UNCHANGED << config, ws, clients, maxQueueSize, arrivals, fnIn, fnOut,
                    rm, returned, delivered, reportTimer, bc >>

\* router.processQueue()
ProcessQueueAt ==
    /\ Idle
    /\ messageQueue # << >>
    /\ ops + Len(messageQueue) <= MaxStamped
    /\ \E throwsAt \in [1..Len(messageQueue) -> SUBSET Range(Ids(clients))] :
       \E times \in ClockReadings(Len(messageQueue)) :
       \E r \in { processQueueAt(RouterState, throwsAt,
                                 [i \in 1..Len(messageQueue) |->
                                     ElapsedReadings(Len(clients), times[i])],
                                 times) } :
          /\ messageQueue' = r.st.messageQueue
          /\ serializationCache' = r.st.serializationCache
          /\ stats' = r.st.stats
          /\ last' = Did("processQueue", "", NoFrame, r.calls, << >>)
          /\ clock' = times[Len(messageQueue)][2]
    /\ ops' = ops + Len(messageQueue)
    /\ UNCHANGED << config, ws, clients, maxQueueSize, arrivals, fnIn, fnOut,
                    rm, returned, delivered, reportTimer, bc >>

NextStamps ==
    \/ \E id \in Conns, type \in VALID_MESSAGE_SOURCES : AddClient(id, type)
    \/ \E id \in Conns : RemoveClient(id)
    \/ \E message \in StampMessages, src \in RouterSources :
          RouteMessageAt(message, src)
    \/ ProcessQueueAt
    \/ Return

SpecStamps == InitStamps /\ [][NextStamps]_vars

SpecServerRouter == InitServerRouter /\ [][NextRouter]_vars

----------------------------------------------------------------------------
\* AuthManager.authorize called on its own, on one (role, message) pair.

AuthzCommands ==
    { Str("say"), Str("stop"), Str("restart"), Str("op"), Str("deop"),
      Str("stopwatch"), Str("s"), Str(""), Undef, Null, Num(7) }

AuthzMessages ==
    { Msg(type, Id_a, "mcp", CommandPayload(command, Undef)) :
        type \in VALID_MESSAGE_TYPES, command \in AuthzCommands }
    \cup { Msg(type, Id_a, "mcp", NoPayload) : type \in VALID_MESSAGE_TYPES }

InitAuthz ==
    /\ config = [mcpAuthTokens |-> { T_mcp }, minecraftAuthToken |-> T_minecraft,
                 messageQueueSize |-> 1]
    /\ ws = [c \in Conns |-> NoSocket]
    /\ clients = << >>
    /\ messageQueue = << >>
    /\ maxQueueSize = DefaultMaxQueueSize
    /\ serializationCache = << >>
    /\ stats = EmptyStats
    /\ last = NoHandler
    /\ arrivals = [routed |-> << >>, everRegistered |-> FALSE]
    /\ ops = 0
    /\ fnIn \in [clientType : VALID_MESSAGE_SOURCES, message : AuthzMessages]
    /\ fnOut = NoAuthz
    /\ rm = NoManager
    /\ returned = NoReturned
    /\ clock = 0
    /\ delivered = NoDeliveries
    /\ reportTimer = NoReportTimer
    /\ bc = NoClient

\* authManager.authorize(clientType, message)
CallAuthorize ==
    /\ ~fnOut.done
    /\ fnOut' = authorize(fnIn.clientType, fnIn.message) @@ [done |-> TRUE]
    /\ UNCHANGED << config, ws, clients, messageQueue, maxQueueSize,
                    serializationCache, stats, last, arrivals, ops, fnIn, rm, returned,
                    clock,
                    delivered, reportTimer, bc >>

NextAuthz == CallAuthorize

SpecAuthz == InitAuthz /\ [][NextAuthz]_vars

----------------------------------------------------------------------------
\* connection-registry.ts: a ConnectionRegistry called through its public
\* methods.  ws[id] is the caller's record of the id: authenticated holds
\* when the id was added and not removed since, clientType and clientVersion
\* are the arguments of its last add.

RegistryVersions == { Str(VERSION), Str("1.1.0") }

\* No list has been returned yet.
NoList == [taken |-> FALSE, list |-> << >>, shared |-> FALSE, role |-> ""]

InitRegistry ==
    /\ config = [mcpAuthTokens |-> { T_mcp }, minecraftAuthToken |-> T_minecraft,
                 messageQueueSize |-> 1]
    /\ ws = [c \in Conns |-> NoSocket]
    /\ clients = << >>
    /\ messageQueue = << >>
    /\ maxQueueSize = DefaultMaxQueueSize
    /\ serializationCache = << >>
    /\ stats = EmptyStats
    /\ last = NoHandler
    /\ arrivals = [routed |-> << >>, everRegistered |-> FALSE]
    /\ ops = 0
    /\ fnIn = NoAuthzInput
    /\ fnOut = NoAuthz
    /\ rm = NoManager
    /\ returned = NoList
    /\ clock = 0
    /\ delivered = NoDeliveries
    /\ reportTimer = NoReportTimer
    /\ bc = NoClient

\* What a change of the registry does to a list handed out before: a list
\* the registry goes on using shows the change.
ListSeenThrough(ret, reg) ==
    IF ~ret.shared THEN ret
    ELSE [ret EXCEPT !.list = clientsOfType(reg, ret.role).list]

\* registry.addClient(id, ws, type, version)
RegAdd(id, type, version) ==
    /\ clients' = addClient(clients, id, type, version)
    /\ ws' = [ws EXCEPT ![id].authenticated = TRUE, ![id].clientType = type,
                        ![id].clientVersion = version]
    /\ returned' = ListSeenThrough(returned, clients')
    /\ last' = Did("addClient", id, NoFrame, << >>, << >>)
    /\ UNCHANGED << config, messageQueue, maxQueueSize, serializationCache,
                    stats, arrivals, ops, fnIn, fnOut, rm, clock,
                    delivered, reportTimer, bc >>

\* registry.removeClient(id), of an id that is registered or not.
RegRemove(id) ==
    /\ clients' = removeClient(clients, id)
    /\ ws' = [ws EXCEPT ![id].authenticated = FALSE]
    /\ returned' = ListSeenThrough(returned, clients')
    /\ last' = Did("removeClient", id, NoFrame, << >>, << >>)
    /\ UNCHANGED << config, messageQueue, maxQueueSize, serializationCache,
                    stats, arrivals, ops, fnIn, fnOut, rm, clock,
                    delivered, reportTimer, bc >>

\* const list = registry.getMCPClients() / getMinecraftClients()
GetClients(role) ==
    /\ returned' = clientsOfType(clients, role) @@ [taken |-> TRUE, role |-> role]
    /\ last' = Did("getClients", role, NoFrame, << >>, << >>)
    /\ UNCHANGED << config, ws, clients, messageQueue, maxQueueSize,
                    serializationCache, stats, arrivals, ops, fnIn, fnOut, rm,
                    clock,
                    delivered, reportTimer, bc >>

\* list.push(entry) by the caller.
CallerPush(id) ==
    /\ returned.taken
    /\ Len(returned.list) < MaxListLen
    /\ LET entry == [id |-> id, type |-> returned.role, version |-> Str(VERSION)]
       IN  /\ returned' = [returned EXCEPT !.list = Append(@, entry)]
           /\ clients' = IF returned.shared THEN Append(clients, entry)
                          ELSE clients
    /\ last' = Did("push", id, NoFrame, << >>, << >>)
    /\ UNCHANGED << config, ws, messageQueue, maxQueueSize, serializationCache,
                    stats, arrivals, ops, fnIn, fnOut, rm, clock,
                    delivered, reportTimer, bc >>

\* list.pop() by the caller.
CallerPop ==
    /\ returned.taken
    /\ returned.list # << >>
    /\ returned' = [returned EXCEPT !.list = SubSeq(@, 1, Len(@) - 1)]
    /\ clients' = IF returned.shared
                   THEN removeClient(clients,
                                     returned.list[Len(returned.list)].id)
                   ELSE clients
    /\ last' = Did("pop", "", NoFrame, << >>, << >>)
    /\ UNCHANGED << config, ws, messageQueue, maxQueueSize, serializationCache,
                    stats, arrivals, ops, fnIn, fnOut, rm, clock,
                    delivered, reportTimer, bc >>

NextRegistry ==
    \/ \E id \in Conns, type \in VALID_MESSAGE_SOURCES,
          version \in RegistryVersions : RegAdd(id, type, version)
    \/ \E id \in Conns : RegRemove(id)
    \/ \E role \in VALID_MESSAGE_SOURCES : GetClients(role)
    \/ \E id \in Conns : CallerPush(id)
    \/ CallerPop

SpecRegistry == InitRegistry /\ [][NextRegistry]_vars

----------------------------------------------------------------------------
\* AuthManager.authenticate called on its own, under the configurations
\* loadConfig can produce: MCP_AUTH_TOKENS unset ([]), '' (['']), one or two
\* tokens, the Minecraft token among them or not; MINECRAFT_AUTH_TOKEN set or
\* unset ('').

AuthnConfigs ==
    [mcpAuthTokens : { {}, { "" }, { T_mcp }, { T_minecraft },
                       { T_mcp, T_minecraft } },
     minecraftAuthToken : { T_minecraft, "" },
     messageQueueSize : { 1 }]

\* Authenticating frames: a credential under every declared type and source.
AuthnMessages ==
    { Msg(type, Id_a, source, AuthPayload(tok)) :
        type \in { "command", "event" }, source \in VALID_MESSAGE_SOURCES,
        tok \in Tokens }

InitAuthn ==
    /\ config \in AuthnConfigs
    /\ ws = [c \in Conns |-> NoSocket]
    /\ clients = << >>
    /\ messageQueue = << >>
    /\ maxQueueSize = DefaultMaxQueueSize
    /\ serializationCache = << >>
    /\ stats = EmptyStats
    /\ last = NoHandler
    /\ arrivals = [routed |-> << >>, everRegistered |-> FALSE]
    /\ ops = 0
    /\ fnIn \in [clientType : { "mcp" }, message : AuthnMessages]
    /\ fnOut = NoAuthz
    /\ rm = NoManager
    /\ returned = NoReturned
    /\ clock = 0
    /\ delivered = NoDeliveries
    /\ reportTimer = NoReportTimer
    /\ bc = NoClient

\* authManager.authenticate(message, ws)
CallAuthenticate ==
    /\ ~fnOut.done
    /\ fnOut' = authenticate(config, fnIn.message) @@ [done |-> TRUE]
    /\ UNCHANGED << config, ws, clients, messageQueue, maxQueueSize,
                    serializationCache, stats, last, arrivals, ops, fnIn, rm,
                    returned, clock,
                    delivered, reportTimer, bc >>

NextAuthn == CallAuthenticate

SpecAuthn == InitAuthn /\ [][NextAuthn]_vars

----------------------------------------------------------------------------
\* validateMessage called on its own, on one value.

\* payload: absent, null, an object without properties, and the payloads of
\* a command, an event and a response.
ValidatePayloads ==
    { NoPayload, [NoPayload EXCEPT !.t = "null"], EmptyPayload,
      CommandPayload(Str("say"), Undef), EventPayload,
      [EmptyPayload EXCEPT !.success = Bool(TRUE)] }

\* Every envelope field present and well typed, absent, of another type,
\* and of its type with a value that is falsy in JavaScript ('' and 0).
ValidateMessages ==
    { BridgeMessage(version, type, id, timestamp, source, payload) :
        version \in { Str(VERSION), Str(""), Undef, Num(1) },
        type \in { Str("command"), Str("event"), Str("response"), Str("query"),
                   Str("bogus"), Undef },
        id \in { Id_a, Str(""), Undef },
        timestamp \in { Num(1), Num(0), Undef, Str("1") },
        source \in { Str("mcp"), Str("other"), Undef },
        payload \in ValidatePayloads }

InitValidate ==
    /\ config = [mcpAuthTokens |-> { T_mcp }, minecraftAuthToken |-> T_minecraft,
                 messageQueueSize |-> 1]
    /\ ws = [c \in Conns |-> NoSocket]
    /\ clients = << >>
    /\ messageQueue = << >>
    /\ maxQueueSize = DefaultMaxQueueSize
    /\ serializationCache = << >>
    /\ stats = EmptyStats
    /\ last = NoHandler
    /\ arrivals = [routed |-> << >>, everRegistered |-> FALSE]
    /\ ops = 0
    /\ fnIn \in [clientType : { "mcp" }, message : ValidateMessages]
    /\ fnOut = NoAuthz
    /\ rm = NoManager
    /\ returned = NoReturned
    /\ clock = 0
    /\ delivered = NoDeliveries
    /\ reportTimer = NoReportTimer
    /\ bc = NoClient

\* validateMessage(message): the function reads its argument and writes
\* only its own errors array.
CallValidate ==
    /\ ~fnOut.done
    /\ fnOut' = validateMessage(fnIn.message) @@ [done |-> TRUE]
    /\ UNCHANGED << config, ws, clients, messageQueue, maxQueueSize,
                    serializationCache, stats, last, arrivals, ops, fnIn, rm,
                    returned, clock,
                    delivered, reportTimer, bc >>

NextValidate == CallValidate

SpecValidate == InitValidate /\ [][NextValidate]_vars

----------------------------------------------------------------------------
\* index.ts: the heartbeat of the running BridgeServer.

\* The sockets in an order (wss.clients iterates in connection order; nothing
\* here depends on which).
ConnSeq == << "c1", "c2" >>

\* The socket is in wss.clients.
InServer(socket) == socket.state \in { "open", "closing" }

\* A supervisor that pings every socket and terminates none.
MutCheckHeartbeatOnlyPings(socket) ==
    [socket EXCEPT !.isAlive = FALSE, !.pinged = TRUE,
                   !.missed = IF socket.pinged THEN @ + 1 ELSE 0]

\* The body of checkHeartbeats for one socket: terminate() on a flag that
\* is false, else clear the flag and ping().
checkHeartbeat(socket) ==
    IF socket.isAlive = FALSE
    THEN [socket EXCEPT !.state = "terminated",
                        !.missed = IF socket.pinged THEN @ + 1 ELSE 0]
    ELSE [socket EXCEPT !.isAlive = FALSE, !.pinged = TRUE,
                        !.missed = IF socket.pinged THEN @ + 1 ELSE 0]

\* The pings one checkHeartbeats run sends.
Pings(sockets) ==
    LET alive == SelectSeq(ConnSeq, LAMBDA c : InServer(sockets[c])
                                               /\ checkHeartbeat(sockets[c]).state
                                                     # "terminated")
    IN  [i \in 1..Len(alive) |-> Reply(alive[i], "ping", Undef, "")]

\* The frames of the heartbeat runs: the two credentials and one command.
HeartbeatFrames ==
    { [kind |-> "object", message |-> m] :
        m \in { Msg("command", Id_a, "mcp", AuthPayload(Str(T_mcp))),
                Msg("command", Id_a, "minecraft", AuthPayload(Str(T_minecraft))),
                CmdSay("mcp") } }

\* The setInterval callback: checkHeartbeats over wss.clients.
Heartbeat ==
    /\ Idle
    /\ \E c \in Conns : InServer(ws[c])
    /\ ws' = [c \in Conns |-> IF InServer(ws[c]) THEN checkHeartbeat(ws[c])
                              ELSE ws[c]]
    /\ last' = Did("heartbeat", "", NoFrame, << >>, Pings(ws))
    /\ UNCHANGED << config, clients, messageQueue, maxQueueSize,
                    serializationCache, stats, arrivals, ops, fnIn, fnOut, rm,
                    returned, clock,
                    delivered, reportTimer, bc >>

\* ws 'pong' on socket c.
Pong(c) ==
    /\ Idle
    /\ InServer(ws[c])
    /\ ws' = [ws EXCEPT ![c].isAlive = TRUE, ![c].pinged = FALSE]
    /\ last' = Did("pong", c, NoFrame, << >>, << >>)
    /\ UNCHANGED << config, clients, messageQueue, maxQueueSize,
                    serializationCache, stats, arrivals, ops, fnIn, fnOut, rm,
                    returned, clock,
                    delivered, reportTimer, bc >>

NextHeartbeat ==
    \/ \E c \in Conns : Connect(c)
    \/ \E c \in Conns, frame \in HeartbeatFrames : HandleFrame(c, frame)
    \/ \E c \in Conns : Pong(c)
    \/ \E c \in Conns : Close(c)
    \/ Heartbeat
    \/ Return

\* A handler that runs returns, and the event loop, each time it is idle,
\* may take the 'close' of a socket that terminate() has destroyed: it does
\* take it in the end.
SpecHeartbeat ==
    /\ Init
    /\ [][NextHeartbeat]_vars
    /\ WF_vars(Return)
    /\ \A c \in Conns : SF_vars(ws[c].state = "terminated" /\ Close(c))

----------------------------------------------------------------------------
\* latency-monitor.ts: a LatencyMonitor called through its public methods,
\* as the LatencyMonitor tests do.

\* recordLatency: `if (latencyMs > this.latencyThreshold) logger.warn(...)`
WarnsOnLatency(latencyMs) == latencyMs > latencyThreshold

\* resetStats
resetStats(st) == EmptyStats

\* A report that leaves the counters as they are.
MutReportStatsKeeps(st) == st

\* reportStats: nothing to do on an empty window, else log and reset.
reportStats(st) == IF st.overall.count = 0 THEN st ELSE resetStats(st)

\* A getStats that hands out the monitor's own metrics objects.
MutGetStatsShared(st) ==
    [taken |-> TRUE, overall |-> st.overall, byType |-> st.byType,
     shared |-> TRUE]

\* getStats: `{ ...metrics }` for overall and for every per-type entry, so
\* the caller's objects are new ones (shared = FALSE: none of them is an
\* object the monitor holds).
getStats(st) ==
    [taken |-> TRUE, overall |-> st.overall, byType |-> st.byType,
     shared |-> FALSE]

MonitorTypes == { Str("event"), Str("command") }

\* Date.now() - routeStart: negative when the wall clock was set back
\* between the two readings.
MonitorLatencies == { -5, 30, 100, 101 }

\* The value the caller writes into a count field of what it was handed.
CallerValue == 999

InitMonitor ==
    /\ config = [mcpAuthTokens |-> { T_mcp }, minecraftAuthToken |-> T_minecraft,
                 messageQueueSize |-> 1]
    /\ ws = [c \in Conns |-> NoSocket]
    /\ clients = << >>
    /\ messageQueue = << >>
    /\ maxQueueSize = DefaultMaxQueueSize
    /\ serializationCache = << >>
    /\ stats = EmptyStats
    /\ last = NoHandler
    /\ arrivals = [routed |-> << >>, everRegistered |-> FALSE]
    /\ ops = 0
    /\ fnIn = NoAuthzInput
    /\ fnOut = NoAuthz
    /\ rm = NoManager
    /\ returned = NoReturned
    /\ clock = 0
    /\ delivered = NoDeliveries
    /\ reportTimer = NoReportTimer
    /\ bc = NoClient

\* What a write to the monitor's objects does to a value handed out before:
\* it shows in the objects the two share.
SeenThrough(ret, st) ==
    IF ~ret.shared THEN ret
    ELSE [ret EXCEPT
            !.overall = st.overall,
            !.byType = [i \in 1..Len(ret.byType) |->
                          [ret.byType[i] EXCEPT
                              !.metrics = st.byType[TypeIndex(st.byType,
                                                    ret.byType[i].type)].metrics]]]

\* monitor.recordLatency(messageType, latencyMs)
RecordLatency(messageType, latencyMs) ==
    /\ ops < MaxRecords
    /\ stats' = recordLatency(stats, messageType, latencyMs)
    /\ returned' = SeenThrough(returned, stats')
    /\ last' = Did("recordLatency", "", NoFrame,
                   << [messageType |-> messageType, latencyMs |-> latencyMs,
                       warned |-> WarnsOnLatency(latencyMs)] >>, << >>)
    /\ ops' = ops + 1
    /\ UNCHANGED << config, ws, clients, messageQueue, maxQueueSize,
                    serializationCache, arrivals, fnIn, fnOut, rm, clock,
                    delivered, reportTimer, bc >>

\* monitor.reportStats(), from the interval timer or called directly.  The
\* reset installs new objects: a value handed out before shares nothing
\* with the monitor afterwards.
ReportStats ==
    /\ stats' = reportStats(stats)
    /\ returned' = IF stats' = stats THEN returned
                   ELSE [returned EXCEPT !.shared = FALSE]
    /\ last' = Did("reportStats", "", NoFrame,
                   << [reported |-> stats.overall.count] >>, << >>)
    /\ UNCHANGED << config, ws, clients, messageQueue, maxQueueSize,
                    serializationCache, arrivals, ops, fnIn, fnOut, rm,
                    clock,
                    delivered, reportTimer, bc >>

\* const s = monitor.getStats()
GetStats ==
    /\ returned' = getStats(stats)
    /\ last' = Did("getStats", "", NoFrame, << >>, << >>)
    /\ UNCHANGED << config, ws, clients, messageQueue, maxQueueSize,
                    serializationCache, stats, arrivals, ops, fnIn, fnOut, rm,
                    clock,
                    delivered, reportTimer, bc >>

\* The caller assigns to s.overall.count (k = 0) or to the count of the
\* k-th per-type entry of s.
CallerWrites(k) ==
    /\ returned.taken
    /\ returned' = IF k = 0
                   THEN [returned EXCEPT !.overall.count = CallerValue]
                   ELSE [returned EXCEPT !.byType[k].metrics.count = CallerValue]
    /\ returned' # returned
    /\ stats' = IF ~returned.shared THEN stats
                ELSE IF k = 0 THEN [stats EXCEPT !.overall.count = CallerValue]
                ELSE [stats EXCEPT
                        !.byType[TypeIndex(stats.byType, returned.byType[k].type)]
                           .metrics.count = CallerValue]
    /\ last' = Did("write", "", NoFrame, << [field |-> k] >>, << >>)
    /\ UNCHANGED << config, ws, clients, messageQueue, maxQueueSize,
                    serializationCache, arrivals, ops, fnIn, fnOut, rm,
                    clock,
                    delivered, reportTimer, bc >>

NextMonitor ==
    \/ \E messageType \in MonitorTypes, latencyMs \in MonitorLatencies :
          RecordLatency(messageType, latencyMs)
    \/ ReportStats
    \/ GetStats
    \/ \E k \in 0..Len(returned.byType) : CallerWrites(k)

SpecMonitor == InitMonitor /\ [][NextMonitor]_vars

\* The periodic report: startReporting, stopReporting and the intervals
\* they arm and clear.

\* startReporting: `this.reportTimer = setInterval(...)`.  A handle already
\* in reportTimer is overwritten, its interval stays armed.
startReporting(t) ==
    [reportTimer |-> t.created + 1,
     armed       |-> t.armed \cup { t.created + 1 },
     created     |-> t.created + 1,
     stopped     |-> FALSE]

\* stopReporting: clearInterval on the handle in reportTimer, if there is
\* one.  stopped records that the last of the two calls was this one.
stopReporting(t) ==
    IF t.reportTimer # 0
    THEN [t EXCEPT !.armed = @ \ { t.reportTimer }, !.reportTimer = 0,
                   !.stopped = TRUE]
    ELSE [t EXCEPT !.stopped = TRUE]

\* monitor.startReporting()
StartReporting ==
    /\ reportTimer.created < MaxIntervals
    /\ reportTimer' = startReporting(reportTimer)
    /\ last' = Did("startReporting", "", NoFrame, << >>, << >>)
    /\ UNCHANGED << config, ws, clients, messageQueue, maxQueueSize,
                    serializationCache, stats, arrivals, ops, fnIn, fnOut, rm,
                    returned, clock, delivered, bc >>

\* monitor.stopReporting()
StopReporting ==
    /\ reportTimer' = stopReporting(reportTimer)
    /\ last' = Did("stopReporting", "", NoFrame, << >>, << >>)
    /\ UNCHANGED << config, ws, clients, messageQueue, maxQueueSize,
                    serializationCache, stats, arrivals, ops, fnIn, fnOut, rm,
                    returned, clock, delivered, bc >>

\* An armed interval elapses: its callback runs reportStats().
IntervalFires(handle) ==
    /\ handle \in reportTimer.armed
    /\ stats' = reportStats(stats)
    /\ last' = Did("interval", "", NoFrame,
                   << [handle |-> handle, reported |-> stats.overall.count] >>,
                   << >>)
    /\ UNCHANGED << config, ws, clients, messageQueue, maxQueueSize,
                    serializationCache, arrivals, ops, fnIn, fnOut, rm,
                    returned, clock, delivered, reportTimer, bc >>

NextReporting ==
    \/ \E messageType \in MonitorTypes, latencyMs \in MonitorLatencies :
          RecordLatency(messageType, latencyMs)
    \/ StartReporting
    \/ StopReporting
    \/ \E handle \in 1..MaxIntervals : IntervalFires(handle)

SpecReporting == InitMonitor /\ [][NextReporting]_vars

----------------------------------------------------------------------------
\* reconnection.ts: ReconnectionManager.

RECURSIVE Pow2(_)
\* Math.pow(2, k)
Pow2(k) == IF k = 0 THEN 1 ELSE 2 * Pow2(k - 1)

\* A backoff without the maxDelay cap.
MutBackoffUncapped(cfg, attempts) == cfg.initialDelay * Pow2(attempts)

\* Math.min(initialDelay * Math.pow(2, attempts), maxDelay)
backoffDelay(cfg, attempts) ==
    Min(cfg.initialDelay * Pow2(attempts), cfg.maxDelay)

\* scheduleReconnection: give up at maxAttempts, else count the attempt and
\* arm a timer.
scheduleReconnection(m) ==
    IF m.attempts >= m.config.maxAttempts THEN m
    ELSE [m EXCEPT !.attempts = @ + 1,
                   !.timers = Append(@, [delay |-> backoffDelay(m.config, m.attempts),
                                         state |-> "pending"]),
                   !.reconnectTimeout = Len(m.timers) + 1]

\* attemptConnection: `new WebSocket(url)` yields a connecting socket with
\* the four handlers, or throws (an unusable url) into the catch block.
attemptConnection(m) ==
    LET counted == [m EXCEPT !.connectionAttempts = @ + 1]
    IN  IF m.config.urlValid
        THEN [counted EXCEPT !.socks = Append(@, "connecting"),
                             !.ws = Len(m.socks) + 1]
        ELSE scheduleReconnection(counted)

\* An 'open' handler that leaves attempts as it is.
MutOnOpenKeepsAttempts(m) == m

\* The 'open' handler.
onOpen(m) == [m EXCEPT !.attempts = 0]

\* The 'close' handler.
onClose(m) == scheduleReconnection(m)

\* disconnect(): clearTimeout on the last timer (a no-op once it has fired),
\* close() on the last socket (a no-op once it is closed).
disconnect(m) ==
    LET cleared ==
            IF m.reconnectTimeout # 0
               /\ m.timers[m.reconnectTimeout].state = "pending"
            THEN [m EXCEPT !.timers[m.reconnectTimeout].state = "cleared"]
            ELSE m
    IN  IF m.ws # 0 /\ m.socks[m.ws] \in { "connecting", "open" }
        THEN [cleared EXCEPT !.socks[m.ws] = "closing"]
        ELSE cleared

ReconnectionConfigs ==
    [maxAttempts : { 2, 5 }, initialDelay : { 1000 },
     maxDelay : { 4000, 16000 }, urlValid : BOOLEAN]

InitReconnection ==
    /\ config = [mcpAuthTokens |-> { T_mcp }, minecraftAuthToken |-> T_minecraft,
                 messageQueueSize |-> 1]
    /\ ws = [c \in Conns |-> NoSocket]
    /\ clients = << >>
    /\ messageQueue = << >>
    /\ maxQueueSize = DefaultMaxQueueSize
    /\ serializationCache = << >>
    /\ stats = EmptyStats
    /\ last = NoHandler
    /\ arrivals = [routed |-> << >>, everRegistered |-> FALSE]
    /\ ops = 0
    /\ fnIn = NoAuthzInput
    /\ fnOut = NoAuthz
    /\ rm \in { NewManager(cfg) : cfg \in ReconnectionConfigs }
    /\ returned = NoReturned
    /\ clock = 0
    /\ delivered = NoDeliveries
    /\ reportTimer = NoReportTimer
    /\ bc = NoClient

\* manager.connect(onConnect, onMessage, onError)
RmConnect ==
    /\ ~rm.started
    /\ rm' = [attemptConnection(rm) EXCEPT !.started = TRUE]
    /\ UNCHANGED << config, ws, clients, messageQueue, maxQueueSize,
                    serializationCache, stats, last, arrivals, ops, fnIn,
                    fnOut, returned, clock,
                    delivered, reportTimer, bc >>

\* 'open' on socket i.
RmOpen(i) ==
    /\ rm.socks[i] = "connecting"
    /\ rm' = [onOpen([rm EXCEPT !.socks[i] = "open"])
                EXCEPT !.everOpened = TRUE, !.openedAt = Len(rm.timers)]
    /\ UNCHANGED << config, ws, clients, messageQueue, maxQueueSize,
                    serializationCache, stats, last, arrivals, ops, fnIn,
                    fnOut, returned, clock,
                    delivered, reportTimer, bc >>

\* 'close' on socket i: the connection failed, was dropped, or was closed by
\* disconnect().
RmClose(i) ==
    /\ rm.socks[i] \in { "connecting", "open", "closing" }
    /\ rm' = onClose([rm EXCEPT !.socks[i] = "closed"])
    /\ UNCHANGED << config, ws, clients, messageQueue, maxQueueSize,
                    serializationCache, stats, last, arrivals, ops, fnIn,
                    fnOut, returned, clock,
                    delivered, reportTimer, bc >>

\* Timer t expires.
RmTimer(t) ==
    /\ rm.timers[t].state = "pending"
    /\ rm.connectionAttempts < MaxConnections
    /\ rm' = attemptConnection([rm EXCEPT !.timers[t].state = "fired"])
    /\ UNCHANGED << config, ws, clients, messageQueue, maxQueueSize,
                    serializationCache, stats, last, arrivals, ops, fnIn,
                    fnOut, returned, clock,
                    delivered, reportTimer, bc >>

\* manager.disconnect()
RmDisconnect ==
    /\ rm.started
    /\ ~rm.disconnected
    /\ rm' = [disconnect(rm) EXCEPT !.disconnected = TRUE,
                                    !.disconnectedAt = rm.connectionAttempts]
    /\ UNCHANGED << config, ws, clients, messageQueue, maxQueueSize,
                    serializationCache, stats, last, arrivals, ops, fnIn,
                    fnOut, returned, clock,
                    delivered, reportTimer, bc >>

NextReconnection ==
    \/ RmConnect
    \/ \E i \in 1..Len(rm.socks) : RmOpen(i)
    \/ \E i \in 1..Len(rm.socks) : RmClose(i)
    \/ \E t \in 1..Len(rm.timers) : RmTimer(t)
    \/ RmDisconnect

SpecReconnection == InitReconnection /\ [][NextReconnection]_vars

----------------------------------------------------------------------------
\* Properties.

\* The ids registered with a role.
RegisteredWithRole(role) ==
    { clients[i].id : i \in { j \in 1..Len(clients) : clients[j].type = role } }

OppositeRole(source) == IF source = Str("mcp") THEN "minecraft" ELSE "mcp"

SameRole(source) == IF source = Str("mcp") THEN "mcp" ELSE "minecraft"

\* C1: in every routeMessage call the connections a send is attempted to are
\* exactly the connections registered, at that moment, with the role opposite
\* to the message's source, and none of them has the source's own role.  (The
\* registry does not change during a call, so it is read in the state the call
\* leaves.)
C1_SendsGoToOppositeRole ==
    \A i \in 1..Len(last.calls) :
        LET call == last.calls[i]
        IN  /\ Range(call.attempted) =
                  RegisteredWithRole(OppositeRole(call.message.source))
            /\ Len(call.attempted) = Cardinality(Range(call.attempted))
            /\ Range(call.attempted)
                  \cap RegisteredWithRole(SameRole(call.message.source)) = {}

\* A call that sends to one connection while a connection of the sender's
\* own role is registered too.
C1_Witness ==
    /\ last.op = "routeMessage"
    /\ Len(last.calls[1].attempted) = 1
    /\ RegisteredWithRole(SameRole(last.calls[1].message.source)) # {}

\* C2: a frame of connection c reaches routeMessage only if an earlier frame
\* of c was accepted by authenticate, and the frame that is accepted is not
\* routed.
C2_NoRouteBeforeAuthentication ==
    [][\A c \in Conns :
          /\ (last'.op = "message" /\ last'.conn = c /\ last'.calls # << >>)
                => ws[c].authenticated
          /\ (~ws[c].authenticated /\ ws'[c].authenticated)
                => /\ last'.op = "message" /\ last'.conn = c
                   /\ authenticate(config, last'.frame.message).success
                   /\ last'.calls = << >>]_vars

\* An authenticated connection has had a frame routed, and a frame of a
\* connection that is not authenticated has been turned away.
C2_Witness ==
    /\ last.op = "message"
    /\ last.calls # << >>
    /\ ws[last.conn].authenticated
    /\ \E c \in Conns : ws[c].state = "closing" /\ ~ws[c].authenticated

\* The credential of a message is missing, not a string, or in neither
\* configured token set.
BadCredential(cfg, message) ==
    LET authToken == PayloadProp(message.payload, "authToken")
    IN  \/ authToken = Undef
        \/ authToken.t # "string"
        \/ /\ authToken.s \notin cfg.mcpAuthTokens
           /\ authToken.s # cfg.minecraftAuthToken

AnsweredWith(replies, c, id, code) ==
    /\ Len(replies) = 1
    /\ replies[1].to = c
    /\ replies[1].type = "error"
    /\ replies[1].id = id
    /\ replies[1].code = code

\* The capability matrix forbids the message to the role.
ForbiddenByMatrix(role, message) ==
    \/ message.type = Str("event") /\ role = "mcp"
    \/ message.type \in { Str("command"), Str("query") } /\ role = "minecraft"

\* C4: every schema-valid frame of an authenticated connection that the
\* capability matrix forbids to the connection's role (an event from an mcp
\* connection, a command or query from a minecraft connection) is answered
\* with PERMISSION_DENIED and is not passed to routeMessage.
C4_MatrixAppliedToEveryType ==
    [][\A c \in Conns :
          ( /\ last'.op = "message" /\ last'.conn = c
            /\ ws[c].authenticated
            /\ last'.frame.kind = "object"
            /\ validateMessage(last'.frame.message).valid
            /\ ForbiddenByMatrix(ws[c].clientType, last'.frame.message) )
          => /\ AnsweredWith(last'.replies, c, last'.frame.message.id,
                             "PERMISSION_DENIED")
             /\ last'.calls = << >>]_vars

\* payload.command starts with an entry of the deny list.
StartsWithDenied(command) ==
    /\ command.t = "string"
    /\ \E prefix \in { "stop", "restart", "op", "deop" } :
          StartsWith(command.s, prefix)

\* The three conditions under which the message is allowed to the role.
AllowedByAuthorize(role, message) ==
    /\ message.type \in { Str("command"), Str("query") } => role = "mcp"
    /\ message.type = Str("event") => role = "minecraft"
    /\ message.type = Str("command")
          => ~StartsWithDenied(PayloadProp(message.payload, "command"))

\* C5: authorize(role, m) returns authorized = true exactly when the role may
\* emit m's type and, for a command, payload.command starts with no entry of
\* the deny list; otherwise authorized = false with a reason.  Stated for a
\* payload.command that is a string or is absent (a command of another type
\* makes the call throw instead of return).
C5_AuthorizeMatchesMatrix ==
    ( /\ fnOut.done
      /\ PayloadProp(fnIn.message.payload, "command").t
            \in { "string", "undefined", "null" } )
    => /\ ~fnOut.threw
       /\ fnOut.authorized <=> AllowedByAuthorize(fnIn.clientType, fnIn.message)
       /\ ~fnOut.authorized => fnOut.reason # ""

\* authorize has denied a command to the minecraft role whose name is not on
\* the deny list.
C5_Witness ==
    /\ fnOut.done
    /\ fnIn.clientType = "minecraft"
    /\ fnIn.message.type = Str("command")
    /\ PayloadProp(fnIn.message.payload, "command") = Str("say")
    /\ ~fnOut.authorized

\* C6: a command frame of an authenticated mcp connection with
\* payload.command = 'execute_command' and payload.args.command starting with
\* stop, restart, op or deop is answered with PERMISSION_DENIED under the
\* same id and is not passed to routeMessage.
C6_DangerousExecuteCommandDenied ==
    [][\A c \in Conns :
          ( /\ last'.op = "message" /\ last'.conn = c
            /\ ws[c].authenticated /\ ws[c].clientType = "mcp"
            /\ last'.frame.kind = "object"
            /\ last'.frame.message.type = Str("command")
            /\ PayloadProp(last'.frame.message.payload, "command")
                  = Str("execute_command")
            /\ StartsWithDenied(PayloadProp(last'.frame.message.payload,
                                            "argsCommand")) )
          => /\ AnsweredWith(last'.replies, c, last'.frame.message.id,
                             "PERMISSION_DENIED")
             /\ last'.calls = << >>]_vars

\* C7: the queue never holds more messages than the messageQueueSize the
\* relay was configured with.
C7_QueueWithinConfiguredSize == Len(messageQueue) <= config.messageQueueSize

\* The last n entries of a sequence (all of it when it is shorter).
LastN(seq, n) ==
    IF Len(seq) <= n THEN seq ELSE SubSeq(seq, Len(seq) - n + 1, Len(seq))

\* C8: while no destination has ever been registered, the queue of a router
\* of capacity N holds exactly the N most recently routed messages (all of
\* them while fewer than N were routed), in arrival order.
C8_QueueKeepsNewest ==
    ~arrivals.everRegistered
    => [i \in 1..Len(messageQueue) |-> messageQueue[i].message]
          = LastN(arrivals.routed, maxQueueSize)

\* Capacity 2 and a third message routed after two different ones.
C8_Witness ==
    /\ ~arrivals.everRegistered
    /\ maxQueueSize = 2
    /\ Len(arrivals.routed) = 3
    /\ arrivals.routed[1] # arrivals.routed[2]
    /\ Len(messageQueue) = 2
    /\ messageQueue[2].message = arrivals.routed[3]

\* C9: in a routeMessage call with destinations, every destination whose
\* send does not throw is sent the message, those after a throwing one
\* included; the message is appended to the queue if and only if no send
\* succeeded, and otherwise the queue is left as it was.
C9_FanOutSurvivesThrow ==
    [][/\ \A i \in 1..Len(last'.calls) :
             LET call == last'.calls[i]
             IN  call.attempted # << >>
                 => /\ call.ok = SelectSeq(call.attempted,
                                     LAMBDA id : id \notin Range(call.threw))
                    /\ call.queued <=> call.ok = << >>
       /\ (last'.op = "routeMessage" /\ last'.calls[1].attempted # << >>)
          => LET call == last'.calls[1]
             IN  /\ call.ok # << >> => messageQueue' = messageQueue
                 /\ call.ok = << >>
                       => /\ messageQueue' # << >>
                          /\ messageQueue'[Len(messageQueue')].message
                                = call.message
                          /\ Len(messageQueue') <= Len(messageQueue) + 1]_vars

\* The first of two destinations threw and the second was sent the message.
C9_Witness ==
    /\ last.op = "routeMessage"
    /\ Len(last.calls[1].attempted) = 2
    /\ last.calls[1].threw = << last.calls[1].attempted[1] >>
    /\ last.calls[1].ok = << last.calls[1].attempted[2] >>
    /\ ~last.calls[1].queued

\* C10: a routeMessage call that enqueues the message, for want of a
\* destination or because every send threw, leaves the latency counters,
\* overall and per type, as they were.
C10_QueuedCallRecordsNoLatency ==
    [][(last'.op = "routeMessage" /\ last'.calls[1].queued)
       => stats' = stats]_vars

\* Every send of a call threw, after latencies had been recorded.
C10_Witness ==
    /\ last.op = "routeMessage"
    /\ last.calls[1].queued
    /\ last.calls[1].attempted # << >>
    /\ last.calls[1].threw = last.calls[1].attempted
    /\ stats.overall.count > 0

\* The messages of a sequence of queue entries or of calls.
MessagesOf(seq) == [i \in 1..Len(seq) |-> seq[i].message]

CountOfType(st, messageType) ==
    IF \E i \in 1..Len(st.byType) : st.byType[i].type = messageType
    THEN st.byType[CHOOSE i \in 1..Len(st.byType) :
                      st.byType[i].type = messageType].metrics.count
    ELSE 0

\* C12: a routeMessage call with at least one successful send raises the
\* overall count and the count of the message's type by exactly 1, whatever
\* the number of destinations, and records one latency value for the call.
C12_OneLatencyRecordPerCall ==
    [][(last'.op = "routeMessage" /\ last'.calls[1].ok # << >>)
       => LET call == last'.calls[1]
          IN  /\ stats'.overall.count = stats.overall.count + 1
              /\ CountOfType(stats', call.message.type)
                    = CountOfType(stats, call.message.type) + 1
              /\ Len(call.latencies) = 1]_vars

\* A reconnection timer is armed and has neither fired nor been cleared.
TimerPending == \E t \in 1..Len(rm.timers) : rm.timers[t].state = "pending"

\* C13: once disconnect() has been called on a ReconnectionManager no
\* reconnection timer is pending and no connection attempt is made any more,
\* also after the 'close' event that disconnect() itself causes.
C13_DisconnectIsTerminal ==
    rm.disconnected
    => /\ ~TimerPending
       /\ rm.connectionAttempts = rm.disconnectedAt

\* The delays of the timers armed so far, in order.
ScheduledDelays == [k \in 1..Len(rm.timers) |-> rm.timers[k].delay]

\* C14: attempts never exceeds maxAttempts; and as long as no attempt has
\* opened, the k-th reconnection (k = 0, 1, ...) is scheduled after
\* min(initialDelay * 2^k, maxDelay), at most maxAttempts reconnections are
\* scheduled, and for maxAttempts = 5, initialDelay = 1000, maxDelay = 16000
\* the delays are 1000, 2000, 4000, 8000, 16000.
C14_BackoffSchedule ==
    /\ rm.attempts <= rm.config.maxAttempts
    /\ ~rm.everOpened
       => /\ rm.attempts = Len(rm.timers)
          /\ rm.connectionAttempts <= rm.config.maxAttempts + 1
          /\ \A k \in 1..Len(rm.timers) :
                rm.timers[k].delay =
                   Min(rm.config.initialDelay * Pow2(k - 1), rm.config.maxDelay)
          /\ (rm.config.maxAttempts = 5 /\ rm.config.maxDelay = 16000)
             => ScheduledDelays
                   = SubSeq(<< 1000, 2000, 4000, 8000, 16000 >>,
                            1, Len(rm.timers))

\* Six attempts were made and closed without an open: five reconnections
\* were scheduled and nothing is pending after the last one closed.
C14_Witness ==
    /\ ~rm.everOpened
    /\ ~rm.disconnected
    /\ rm.config.urlValid
    /\ ScheduledDelays = << 1000, 2000, 4000, 8000, 16000 >>
    /\ Len(rm.socks) = 6
    /\ \A i \in 1..Len(rm.socks) : rm.socks[i] = "closed"
    /\ ~TimerPending

\* C15: every 'open' sets attempts to 0; the first reconnection scheduled
\* after an open uses initialDelay; and after an open the manager gives up
\* on a close only when maxAttempts reconnections were scheduled since that
\* open.
C15_OpenResetsAttempts ==
    [][/\ \A i \in 1..Len(rm.socks) :
             (rm.socks[i] = "connecting" /\ rm'.socks[i] = "open")
                => rm'.attempts = 0
       /\ ( /\ rm.everOpened
            /\ Len(rm.timers) = rm.openedAt
            /\ Len(rm'.timers) = Len(rm.timers) + 1 )
             => rm'.timers[Len(rm'.timers)].delay = rm.config.initialDelay
       /\ ( /\ rm.everOpened
            /\ \E i \in 1..Len(rm.socks) :
                  rm.socks[i] # "closed" /\ rm'.socks[i] = "closed"
            /\ rm'.timers = rm.timers )
             => Len(rm.timers) - rm.openedAt = rm.config.maxAttempts]_vars

\* An attempt opened after an earlier one had failed, and the whole budget
\* of reconnections was then used, the first of them after initialDelay.
C15_Witness ==
    /\ rm.everOpened
    /\ rm.openedAt >= 1
    /\ Len(rm.timers) - rm.openedAt = rm.config.maxAttempts
    /\ rm.timers[rm.openedAt + 1].delay = rm.config.initialDelay
    /\ rm.attempts = rm.config.maxAttempts

\* What one tick does to the sockets of the server.
TickStep ==
    last'.op = "heartbeat"
    => \A c \in Conns :
          InServer(ws[c])
          => IF ws[c].isAlive
             THEN /\ ws'[c].state = ws[c].state
                  /\ ~ws'[c].isAlive
                  /\ \E i \in 1..Len(last'.replies) :
                        last'.replies[i] = Reply(c, "ping", Undef, "")
             ELSE /\ ws'[c].state = "terminated"
                  /\ \A i \in 1..Len(last'.replies) : last'.replies[i].to # c

\* C16: at a heartbeat tick every socket whose flag is false is terminated
\* and every socket whose flag is true has the flag cleared and is sent a
\* ping; a terminated socket is then removed from the registry (when its
\* 'close' is delivered), and a closed socket is never in the registry, so
\* it is no routing destination.
C16_TickTerminatesSilentSockets ==
    /\ [][TickStep]_vars
    /\ \A c \in Conns :
          (ws[c].state = "terminated")
             ~> (ws[c].state = "closed" /\ ~HasClient(clients, c))
    /\ [](\A c \in Conns : ws[c].state = "closed" => ~HasClient(clients, c))

\* One tick has terminated a registered socket and pinged the other.
C16_Witness ==
    /\ last.op = "heartbeat"
    /\ \E c \in Conns : ws[c].state = "terminated" /\ HasClient(clients, c)
    /\ last.replies # << >>

\* C17: a socket is terminated by the heartbeat only after two pings in a
\* row went unanswered; one unanswered ping is tolerated.
C17_OneMissedPingTolerated ==
    \A c \in Conns : ws[c].state = "terminated" => ws[c].missed >= 2

\* The over-threshold count the monitor holds for a type (0 without entry).
OverOfType(st, messageType) ==
    IF \E i \in 1..Len(st.byType) : st.byType[i].type = messageType
    THEN st.byType[CHOOSE i \in 1..Len(st.byType) :
                      st.byType[i].type = messageType].metrics.over100ms
    ELSE 0

\* C18: recording a latency ms raises the over-threshold counter, overall
\* and of the type, by one and emits the warning if ms > 100, and does
\* neither otherwise (100 itself included).
C18_OverThresholdIffAbove100 ==
    [][last'.op = "recordLatency"
       => LET rec == last'.calls[1]
              over == IF rec.latencyMs > 100 THEN 1 ELSE 0
          IN  /\ stats'.overall.over100ms = stats.overall.over100ms + over
              /\ OverOfType(stats', rec.messageType)
                    = OverOfType(stats, rec.messageType) + over
              /\ rec.warned <=> rec.latencyMs > 100]_vars

\* 100 and 101 have both been recorded for a type: one over-threshold count.
C18_Witness ==
    /\ last.op = "recordLatency"
    /\ last.calls[1].latencyMs = 100
    /\ stats.overall.count = 2
    /\ stats.overall.maxMs = 101
    /\ stats.overall.over100ms = 1
    /\ Len(stats.byType) = 1

\* C19: after reportStats() has run, getStats() shows count, total, max and
\* over-threshold count 0 overall and no per-type entry.
C19_ReportResetsWindow ==
    [][last'.op = "reportStats"
       => /\ getStats(stats').overall.count = 0
          /\ getStats(stats').overall.totalMs = 0
          /\ getStats(stats').overall.maxMs = 0
          /\ getStats(stats').overall.over100ms = 0
          /\ getStats(stats').byType = << >>]_vars

\* A report has closed a window that held latencies of two types.
C19_Witness ==
    /\ last.op = "reportStats"
    /\ last.calls[1].reported >= 2
    /\ stats = EmptyStats

\* C20: a write to a field of a value that getStats() returned leaves the
\* monitor's state, and so what a later getStats() returns, as they were;
\* a later recordLatency leaves the returned value as it was; and getStats()
\* returns the monitor's current counters.
C20_GetStatsReturnsCopy ==
    [][/\ last'.op = "write"
          => /\ stats' = stats
             /\ getStats(stats').overall = getStats(stats).overall
             /\ getStats(stats').byType = getStats(stats).byType
       /\ last'.op = "recordLatency" => returned' = returned
       /\ last'.op = "getStats"
          => /\ returned'.overall = stats.overall
             /\ returned'.byType = stats.byType
             /\ stats' = stats]_vars

\* The caller has overwritten the count of a returned per-type entry and the
\* monitor still holds the recorded ones.
C20_Witness ==
    /\ last.op = "write"
    /\ returned.overall.count = CallerValue
    /\ Len(returned.byType) >= 1
    /\ returned.byType[1].metrics.count = CallerValue
    /\ stats.overall.count = 2
    /\ stats.byType[1].metrics.count = 2

\* The handling of a frame on socket c, which is authenticated, has ended.
HandledOn(c) ==
    /\ last'.op = "message"
    /\ last'.conn = c
    /\ ws[c].authenticated

ViolatedChecks(message) ==
    LET p == message.payload
        isType(name) == message.type = Str(name)
        shaped ==
            IF p.t # "object"
            THEN IF isType("command") \/ isType("event") \/ isType("response")
                 THEN << TRUE >> ELSE << >>
            ELSE IF isType("command")
                 THEN << p.command.t # "string", p.args.t # "object" >>
            ELSE IF isType("event")
                 THEN << p.eventType.t # "string", p.timestamp.t # "number",
                         p.data.t = "undefined" >>
            ELSE IF isType("response")
                 THEN << p.success.t # "boolean" >>
            ELSE << >>
    IN  << message.version.t # "string",
           ~(message.type.t = "string" /\ message.type.s \in VALID_MESSAGE_TYPES),
           message.id.t # "string",
           message.timestamp.t # "number",
           ~(message.source.t = "string"
             /\ message.source.s \in VALID_MESSAGE_SOURCES),
           p.t = "undefined" >>
        \o shaped

\* C22: validateMessage(m) returns valid = true exactly when m violates none
\* of the checks (version is a string, type is one of the five types, id is
\* a string, timestamp is a number, source is 'mcp' or 'minecraft', payload
\* is present, and the payload shape of a command, event or response), and
\* otherwise one error entry for every violated check.
C22_ValidateReportsEveryViolation ==
    fnOut.done
    => /\ fnOut.valid <=> (\A i \in 1..Len(ViolatedChecks(fnIn.message)) :
                              ~ViolatedChecks(fnIn.message)[i])
       /\ Len(fnOut.errors)
             = Cardinality({ i \in 1..Len(ViolatedChecks(fnIn.message)) :
                               ViolatedChecks(fnIn.message)[i] })

\* No envelope field of the message is an empty string or the number 0.
NoFalsyField(message) ==
    /\ message.version # Str("")
    /\ message.id # Str("")
    /\ message.timestamp # Num(0)

\* validateMessage on messages none of whose envelope fields is '' or 0:
\* valid exactly when no check is violated, one entry per violated check.
ValidateOnTruthyFields ==
    (fnOut.done /\ NoFalsyField(fnIn.message))
    => /\ fnOut.valid <=> (\A i \in 1..Len(ViolatedChecks(fnIn.message)) :
                              ~ViolatedChecks(fnIn.message)[i])
       /\ Len(fnOut.errors)
             = Cardinality({ i \in 1..Len(ViolatedChecks(fnIn.message)) :
                               ViolatedChecks(fnIn.message)[i] })

\* C23: authorize(role, m) returns, for every role and every message, a
\* command without payload, without payload.command or with a payload.command
\* that is not a string included: no exception leaves the call and the
\* result has a boolean authorized field.
C23_AuthorizeNeverThrows ==
    fnOut.done
    => /\ ~fnOut.threw
       /\ fnOut.authorized \in BOOLEAN

\* C24: authenticate takes the role from the credential alone, the mcp token
\* set first: a non-empty string token in the mcp set yields 'mcp', also when
\* it equals the minecraft token; one that is only the minecraft token yields
\* 'minecraft'; every other credential fails; the empty string fails even
\* when the configured minecraft token (or an mcp token) is empty; and the
\* result is the same under every declared type and source.
C24_RoleFromCredentialInOrder ==
    fnOut.done
    => LET tok == PayloadProp(fnIn.message.payload, "authToken")
           token == tok.t = "string" /\ tok.s # ""
       IN  /\ (token /\ tok.s \in config.mcpAuthTokens)
                 => (fnOut.success /\ fnOut.clientType = "mcp")
           /\ ( /\ token
                /\ tok.s \notin config.mcpAuthTokens
                /\ tok.s = config.minecraftAuthToken )
                 => (fnOut.success /\ fnOut.clientType = "minecraft")
           /\ ( \/ ~token
                \/ /\ tok.s \notin config.mcpAuthTokens
                   /\ tok.s # config.minecraftAuthToken )
                 => ~fnOut.success
           /\ \A other \in AuthnMessages :
                 PayloadProp(other.payload, "authToken") = tok
                 => /\ authenticate(config, other).success = fnOut.success
                    /\ authenticate(config, other).clientType
                          = fnOut.clientType

\* The token of both sets, sent in a frame that declares source 'minecraft',
\* has been given the role 'mcp'.
C24_Witness ==
    /\ fnOut.done
    /\ PayloadProp(fnIn.message.payload, "authToken") = Str(T_minecraft)
    /\ T_minecraft \in config.mcpAuthTokens
    /\ config.minecraftAuthToken = T_minecraft
    /\ fnIn.message.source = Str("minecraft")
    /\ fnOut.success
    /\ fnOut.clientType = "mcp"

\* The empty-string token has been refused under an empty minecraft token.
EmptyTokenRefused ==
    /\ fnOut.done
    /\ PayloadProp(fnIn.message.payload, "authToken") = Str("")
    /\ config.minecraftAuthToken = ""
    /\ ~fnOut.success

\* What the handling of one frame leaves alone: no exception leaves the
\* handler, and every other connection keeps its state and its registration.
FrameStep ==
    \A c \in Conns :
        (last'.op = "message" /\ last'.conn = c)
        => /\ ~last'.escaped
           /\ \A d \in Conns \ { c } :
                 /\ ws'[d] = ws[d]
                 /\ HasClient(clients, d) => HasClient(clients', d)

\* C25: whatever a frame holds (no JSON, JSON null or a primitive, a message
\* that fails validation or authorization, a message whose routing throws),
\* no exception leaves the message handler, the other connections stay as
\* they are and registered, and the relay goes on: the handler returns to
\* the event loop, which takes the next frame.
C25_NoFrameCrashesTheRelay ==
    /\ [][FrameStep]_vars
    /\ [](~last.escaped)
    /\ [](~Idle => ENABLED Return)

\* A frame of a connection has been delivered after an earlier frame of the
\* same connection was JSON null or no JSON and ended in the catch block.
C25_Witness ==
    /\ last.op = "message"
    /\ "dropped" \in ws[last.conn].seen
    /\ Len(last.calls) = 1
    /\ last.calls[1].ok # << >>

\* C26: when routeMessage throws on a frame (its serialisation throws), the
\* sender is sent one error with code SERVER_ERROR, the frame's id and the
\* fixed text; no destination is sent the frame and the queue, the cache and
\* the latency counters are as before; the sender stays registered,
\* authenticated and open; and a later valid frame of the sender, which it
\* is allowed to send, is passed to routeMessage.
C26_RoutingFailureIsServerError ==
    [][\A c \in Conns :
          /\ (last'.op = "message" /\ last'.conn = c /\ last'.fault)
             => /\ last'.replies =
                      sendError(c, last'.frame.message.id, "SERVER_ERROR",
                                InternalServerError)
                /\ last'.calls = << >>
                /\ messageQueue' = messageQueue
                /\ serializationCache' = serializationCache
                /\ stats' = stats
                /\ clients' = clients
                /\ HasClient(clients', c)
                /\ ws'[c].authenticated
                /\ ws'[c].state = ws[c].state
          /\ ( /\ HandledOn(c)
               /\ "SERVER_ERROR" \in ws[c].seen
               /\ last'.frame.kind = "object"
               /\ validateMessage(last'.frame.message).valid
               /\ last'.frame.message.type = Str("command")
                     => ws[c].clientType = "mcp"
               /\ ~last'.fault )
             => /\ Len(last'.calls) = 1
                /\ last'.calls[1].message = last'.frame.message]_vars

\* A frame of a connection has been delivered after the routing of an
\* earlier frame of the same connection had failed.
C26_Witness ==
    /\ last.op = "message"
    /\ "SERVER_ERROR" \in ws[last.conn].seen
    /\ HasClient(clients, last.conn)
    /\ Len(last.calls) = 1
    /\ last.calls[1].ok # << >>

\* The positions of the registry's entries for an id.
EntriesOf(reg, id) == { i \in 1..Len(reg) : reg[i].id = id }

\* C27: after any sequence of addClient and removeClient calls the registry
\* holds, for each id, exactly one entry when the id was added and not
\* removed since, with the role and version of its last add, and no entry
\* otherwise.  An add of a registered id replaces its entry where it stands
\* and leaves the others alone; a remove of an id that is not registered
\* leaves the registry unchanged.
C27_OneEntryPerRegisteredId ==
    /\ [](\A id \in Conns :
            IF ws[id].authenticated
            THEN /\ Cardinality(EntriesOf(clients, id)) = 1
                 /\ \A i \in EntriesOf(clients, id) :
                       /\ clients[i].type = ws[id].clientType
                       /\ clients[i].version = ws[id].clientVersion
            ELSE EntriesOf(clients, id) = {})
    /\ [][/\ (last'.op = "addClient" /\ HasClient(clients, last'.conn))
              => /\ Len(clients') = Len(clients)
                 /\ \A i \in 1..Len(clients) :
                       clients[i].id # last'.conn => clients'[i] = clients[i]
          /\ (last'.op = "removeClient" /\ ~HasClient(clients, last'.conn))
              => clients' = clients]_vars

\* The first of two registered ids has been added again with another role
\* and version: its entry stands where it stood, with the new values.
C27_Witness ==
    /\ last.op = "addClient"
    /\ Len(clients) = 2
    /\ clients[1].id = last.conn
    /\ clients[1].type = "minecraft"
    /\ clients[1].version = Str("1.1.0")
    /\ clients[2].type = "mcp"

\* C28: a list that getMCPClients or getMinecraftClients returned holds the
\* entries of that role at the moment of the call; a later addClient or
\* removeClient leaves the list as it was; and a push to or pop from the
\* list leaves the registry, and what the two getters return next, as they
\* were.
C28_ReturnedListIsSnapshot ==
    [][/\ last'.op = "getClients"
          => /\ returned'.list
                   = SelectSeq(clients, LAMBDA c : c.type = last'.conn)
             /\ clients' = clients
       /\ last'.op \in { "addClient", "removeClient" }
          => returned'.list = returned.list
       /\ last'.op \in { "push", "pop" }
          => /\ clients' = clients
             /\ getMCPClients(clients') = getMCPClients(clients)
             /\ getMinecraftClients(clients') = getMinecraftClients(clients)
      ]_vars

\* A returned list still holds a connection that has since been removed
\* from the registry.
C28_Witness ==
    /\ last.op = "removeClient"
    /\ returned.taken
    /\ Len(returned.list) = 1
    /\ returned.list[1].id = last.conn
    /\ ~HasClient(clients, last.conn)
    /\ clients # << >>

\* The calls a processQueue() starting in the current state makes, when no
\* send throws.
DrainNow ==
    processQueue(RouterState,
                 [i \in 1..Len(messageQueue) |-> {}],
                 [i \in 1..Len(messageQueue) |->
                     [j \in 1..Len(clients) |-> 100]]).calls

\* C29: the 'close' of an authenticated connection removes it from the
\* registry, and from then on it is in the registry no more: no routeMessage
\* call made afterwards, by a handler or by a processQueue() starting then,
\* attempts a send to it or counts it among its destinations.
C29_ClosedConnectionIsNoDestination ==
    /\ [][\A c \in Conns :
              (last'.op = "close" /\ last'.conn = c /\ ws[c].authenticated)
              => ~HasClient(clients', c)]_vars
    /\ [](\A c \in Conns :
            ws[c].state = "closed"
            => /\ ~HasClient(clients, c)
               /\ \A i \in 1..Len(last.calls) :
                     /\ c \notin Range(last.calls[i].attempted)
                     /\ c \notin Range(last.calls[i].ok)
               /\ \A i \in 1..Len(DrainNow) :
                     c \notin Range(DrainNow[i].attempted))

\* A message for the role of a connection that was registered and has
\* closed is routed: the closed connection is no destination, the message
\* is queued.
C29_Witness ==
    /\ last.op = "message"
    /\ Len(last.calls) = 1
    /\ last.calls[1].queued
    /\ \E c \in Conns :
          /\ ws[c].state = "closed"
          /\ ws[c].authenticated
          /\ ws[c].clientType = OppositeRole(last.calls[1].message.source)

\* The value of a property in a serialised message (Undef when it has none).
PropOf(str, name) ==
    IF \E i \in 1..Len(str) : str[i][1] = name
    THEN str[CHOOSE i \in 1..Len(str) : str[i][1] = name][2]
    ELSE Undef

\* C30: every message that a routeMessage call, made directly or by
\* processQueue, sent to at least one destination carries receivedAt and
\* forwardedAt, both numbers, with forwardedAt >= receivedAt: in the text
\* that was sent and in the message object.
C30_ForwardedNotBeforeReceived ==
    \A i \in 1..Len(last.calls) :
        last.calls[i].ok # << >>
        => LET sent == last.calls[i].str
               message == last.calls[i].message
           IN  /\ PropOf(sent, "receivedAt").t = "number"
               /\ PropOf(sent, "forwardedAt").t = "number"
               /\ PropOf(sent, "forwardedAt").n >= PropOf(sent, "receivedAt").n
               /\ message.receivedAt.t = "number"
               /\ message.forwardedAt.t = "number"
               /\ message.forwardedAt.n >= message.receivedAt.n

\* processQueue has delivered, at a later time, a message that was queued
\* after every send of its first attempt had thrown.
C30_Witness ==
    /\ last.op = "processQueue"
    /\ Len(last.calls) >= 1
    /\ last.calls[1].ok # << >>
    /\ last.calls[1].message.receivedAt.n >= 1
    /\ PropOf(last.calls[1].str, "forwardedAt").n
          < last.calls[1].message.receivedAt.n

\* The sum of a counter over the per-type entries.
RECURSIVE SumByType(_, _)
SumByType(byType, field) ==
    IF byType = << >> THEN 0
    ELSE Head(byType).metrics[field] + SumByType(Tail(byType), field)

\* The scopes of the monitor: overall and one per type.
Scopes(st) == << st.overall >> \o [i \in 1..Len(st.byType) |-> st.byType[i].metrics]

\* The metrics of a type's scope (the empty ones before its first record).
MetricsOfType(st, messageType) ==
    IF TypeIndex(st.byType, messageType) = 0 THEN createEmptyMetrics
    ELSE st.byType[TypeIndex(st.byType, messageType)].metrics

\* min and max of a scope once ms is recorded in it: ms alone if it is the
\* first of the window, else the smaller and the larger of ms and the old.
ExtremesFollow(before, after, ms) ==
    /\ after.minMs = (IF before.count = 0 THEN ms ELSE Min(before.minMs, ms))
    /\ after.maxMs = (IF before.count = 0 THEN ms ELSE Max(before.maxMs, ms))

WindowSums ==
    /\ stats.overall.count = SumByType(stats.byType, "count")
    /\ stats.overall.totalMs = SumByType(stats.byType, "totalMs")
    /\ stats.overall.over100ms = SumByType(stats.byType, "over100ms")
    /\ \A i \in 1..Len(Scopes(stats)) :
          LET scope == Scopes(stats)[i]
          IN  /\ scope.over100ms <= scope.count
              /\ scope.avgMs.num * scope.count = scope.totalMs * scope.avgMs.den

C32_SentTextIsFreshSerialisation ==
    \A i \in 1..Len(last.calls) :
        last.calls[i].attempted # << >>
        => last.calls[i].str = JSONstringify(last.calls[i].message)

\* The handler has just queued a message because no connection of the
\* destination role was registered.
QueuedForAbsentRole ==
    /\ last.op = "message"
    /\ last.calls # << >>
    /\ last.calls[1].queued
    /\ last.calls[1].attempted = << >>

\* The queue holds a message whose destination role has a registered
\* connection.
QueuedWithDestination ==
    \E i \in 1..Len(messageQueue) :
        Len(Destinations(clients, messageQueue[i].message)) > 0

\* C33: in the running server, a message queued for lack of a destination
\* does not stay in the queue for ever while a connection of its destination
\* role is registered: it is forwarded (or evicted), or that connection goes.
C33_QueuedIsForwardedOnArrival ==
    [](QueuedForAbsentRole
         => [](QueuedWithDestination => <>(~QueuedWithDestination)))

\* The entries of queue, from the i-th on, whose re-routing queued them again.
RECURSIVE StillQueued(_, _, _)
StillQueued(queue, calls, i) ==
    IF i > Len(queue) THEN << >>
    ELSE (IF calls[i].queued THEN << queue[i] >> ELSE << >>)
         \o StillQueued(queue, calls, i + 1)

\* C34: processQueue() routes the entries of the queue in their order, and
\* leaves in the queue exactly the entries it could not deliver, once each,
\* in their old relative order; with no registered connection the queue is
\* as it was.
C34_ProcessQueueKeepsOrder ==
    [][last'.op = "processQueue"
       => /\ Len(last'.calls) = Len(messageQueue)
          /\ \A i \in 1..Len(messageQueue) :
                /\ last'.calls[i].message = messageQueue[i].message
                /\ last'.calls[i].sourceClientId = messageQueue[i].sourceClientId
                /\ last'.calls[i].queued <=> last'.calls[i].ok = << >>
          /\ messageQueue' = StillQueued(messageQueue, last'.calls, 1)
          /\ clients = << >> => messageQueue' = messageQueue]_vars

\* processQueue has run on two different messages: the first was delivered,
\* the second, whose sends all threw, is the one entry of the queue.
C34_Witness ==
    /\ last.op = "processQueue"
    /\ Len(last.calls) = 2
    /\ last.calls[1].message # last.calls[2].message
    /\ last.calls[1].ok # << >>
    /\ last.calls[2].attempted # << >>
    /\ last.calls[2].queued
    /\ Len(messageQueue) = 1
    /\ messageQueue[1].message = last.calls[2].message

\* processQueue has run on two different messages and neither could be
\* delivered: both are in the queue, in the order they had.
C34_BothKept ==
    /\ last.op = "processQueue"
    /\ Len(last.calls) = 2
    /\ last.calls[1].message # last.calls[2].message
    /\ last.calls[1].queued /\ last.calls[2].queued
    /\ Len(messageQueue) = 2
    /\ messageQueue[1].message = last.calls[1].message

\* The role under which a registered connection authenticated.
RoleOf(reg, id) == reg[CHOOSE k \in 1..Len(reg) : reg[k].id = id].type

\* C35: no frame is delivered to a connection of the authenticated role of
\* the connection that sent it, whatever source the frame declares.
C35_RoutedByAuthenticatedRole ==
    last.op = "message"
    => \A i \in 1..Len(last.calls) :
          \A id \in Range(last.calls[i].ok) :
              RoleOf(clients, id) # ws[last.conn].clientType

\* C36: of a message handed to routeMessage once, no connection is sent a
\* copy (by a send that did not throw) more than once, whatever processQueue
\* calls, registrations, removals and throwing sends follow.
C36_NoDuplicateDelivery == delivered.twice = {}

\* A message submitted once has been routed three times (twice every send
\* threw and it was queued again) and is delivered by the third call.
C36_Witness ==
    /\ last.op = "processQueue"
    /\ Cardinality(delivered.submitted) = 1
    /\ ops = 3
    /\ Len(last.calls) = 1
    /\ last.calls[1].ok # << >>
    /\ messageQueue = << >>

\* C37: a connection one of whose frames has failed authentication is not
\* registered by any later frame.
C37_AuthFailureIsFatal ==
    \A c \in Conns : "AUTH_FAILED" \in ws[c].seen => ~HasClient(clients, c)

\* C38: a heartbeat tick terminates a socket exactly when a ping sent to it
\* has had no pong since: a socket that has answered every ping is kept,
\* at every tick, and a socket with an unanswered ping is terminated whatever
\* frames it has sent meanwhile (the handler of a frame leaves the flag as
\* it is).
C38_PongKeepsAliveMessagesDoNot ==
    /\ [][last'.op = "heartbeat"
           => \A c \in Conns :
                 InServer(ws[c])
                 => (ws'[c].state = "terminated" <=> ws[c].pinged)]_vars
    /\ [][last'.op = "message"
           => /\ ws'[last'.conn].isAlive = ws[last'.conn].isAlive
              /\ ws'[last'.conn].pinged = ws[last'.conn].pinged]_vars

\* A registered socket has had a command routed while its last ping was
\* unanswered: its flag is still false.
C38_Witness ==
    /\ last.op = "message"
    /\ last.calls # << >>
    /\ HasClient(clients, last.conn)
    /\ ws[last.conn].pinged
    /\ ~ws[last.conn].isAlive


\* C39: once stopReporting() has returned, and until startReporting() is
\* called again, no interval of the monitor fires.
C39_NoReportAfterStop ==
    [][reportTimer.stopped => last'.op # "interval"]_vars


\* The id-th sendMessage call has been made and its promise is settled.
Settled(id) ==
    id <= Len(bc.requests) /\ bc.requests[id].promise # "pending"

\* A settled promise stays as it was settled.
SettledOnce ==
    \A id \in 1..Len(bc.requests) :
        bc.requests[id].promise # "pending"
        => /\ bc'.requests[id].promise = bc.requests[id].promise
           /\ bc'.requests[id].by = bc.requests[id].by

\* pendingRequests does not hold the id of a promise at the moment the
\* promise settles.
EntryGoneWhenSettling ==
    \A id \in 1..Len(bc'.requests) :
        ( /\ id > Len(bc.requests) \/ bc.requests[id].promise = "pending"
          /\ bc'.requests[id].promise # "pending" )
        => ~bc'.requests[id].entry

\* pendingRequests holds an id only while the timeout of the request is
\* armed.
EntryWithinTimer ==
    \A id \in 1..Len(bc.requests) :
        bc.requests[id].entry => bc.requests[id].timeout = "armed"

\* C40: every promise that sendCommand / sendQuery returned is settled in
\* the end, and once; when it settles pendingRequests does not hold its id;
\* an entry of pendingRequests never outlives its timer.
C40_EveryRequestSettlesOnce ==
    /\ [][SettledOnce /\ EntryGoneWhenSettling]_vars
    /\ [](EntryWithinTimer)
    /\ \A id \in 1..MaxRequests :
          [](id <= Len(bc.requests) => <>Settled(id))

\* Its last part alone: every promise returned is settled in the end.
C40_EveryRequestSettles ==
    \A id \in 1..MaxRequests :
        [](id <= Len(bc.requests) => <>Settled(id))

\* A promise that nothing will settle any more: its id is gone from
\* pendingRequests, its timeout is cleared, and it is still pending.
C40_NoPromiseForgotten ==
    \A id \in 1..Len(bc.requests) :
        ~( /\ bc.requests[id].promise = "pending"
           /\ ~bc.requests[id].entry
           /\ bc.requests[id].timeout = "cleared" )

\* What holds of it: a settled promise is never settled again, an entry
\* never outlives its timer, a frame about an id that is not pending
\* changes nothing, and a promise whose send went out or failed through the
\* callback settles with its entry gone.
C40_SettledOnceWithinTimer ==
    /\ [][SettledOnce]_vars
    /\ [](EntryWithinTimer)
    /\ [][\A id \in 1..Len(bc'.requests) :
             ( /\ id > Len(bc.requests) \/ bc.requests[id].promise = "pending"
               /\ bc'.requests[id].promise # "pending"
               /\ bc'.requests[id].by # "thrown" )
             => ~bc'.requests[id].entry]_vars

=============================================================================
